---- MODULE Spec2Model ----
(***************************************************************************)
(* go-refluxdb: the line protocol codec (package protocol, Parse and       *)
(* LineProtocol.String) and the v1 query handler (package server,          *)
(* handleV1Query: query interpretation and mean aggregation).              *)
(*                                                                         *)
(* A Go string is a sequence of one-character strings, so that the         *)
(* substring scanning of the code is modelled character by character.      *)
(*                                                                         *)
(* The code counts time in nanoseconds in an int64.  The integers of the   *)
(* model checker have 32 bits, in which one minute of nanoseconds does not *)
(* fit, so the model counts time in units of Unit nanoseconds: every       *)
(* nanosecond constant of the code is written as in the code and divided   *)
(* by Unit, and a time literal without the ms suffix counts units.         *)
(***************************************************************************)
EXTENDS Integers, Sequences, FiniteSets, TLC

VARIABLES line, pc, lp, text, lp2, store, clock, query, resp, read,
          wreq, wresp, before, writes, alive, mu, procs, udp, prev

vars ==
  <<line, pc, lp, text, lp2, store, clock, query, resp, read,
    wreq, wresp, before, writes, alive, mu, procs, udp, prev>>

codecVars == <<line, pc, lp, text, lp2>>

serverVars == <<store, clock, query, resp>>

\* what a caller of the store holds, the result of GetMeasurementRange, and
\* the ingest side: the write request, its answer, the number of rows
\* stored before it was handled, the number of requests sent, and whether
\* the process is alive
callerVars == <<read, wreq, wresp, before, writes, alive, prev>>

\* the RWMutex of the Manager and the goroutines that use the store
\* concurrently
concVars == <<mu, procs>>

----------------------------------------------------------------------------
(* Go's strings package, on sequences of characters.                       *)

\* the characters of the model in ascending byte order (sort.Strings order)
Ascii ==
  <<"\t", " ", "\"", "(", ")", "*", "+", ",", "-", ".",
    "0", "1", "2", "3", "4", "5", "6", "7", "8", "9",
    "<", "=", ">",
    "A", "B", "C", "D", "E", "F", "G", "H", "I", "J", "K", "L", "M",
    "N", "O", "P", "Q", "R", "S", "T", "U", "V", "W", "X", "Y", "Z",
    "\\", "_",
    "a", "b", "c", "d", "e", "f", "g", "h", "i", "j", "k", "l", "m",
    "n", "o", "p", "q", "r", "s", "t", "u", "v", "w", "x", "y", "z">>

Ord(c) == CHOOSE i \in 1..Len(Ascii) : Ascii[i] = c

Digits == <<"0", "1", "2", "3", "4", "5", "6", "7", "8", "9">>

IsDigit(c) == \E i \in 1..10 : Digits[i] = c

DigitVal(c) == (CHOOSE i \in 1..10 : Digits[i] = c) - 1

UpperCase == SubSeq(Ascii, 24, 49)

LowerCase == SubSeq(Ascii, 52, 77)

ToLowerCh(c) ==
  IF \E i \in 1..26 : UpperCase[i] = c
  THEN LowerCase[CHOOSE i \in 1..26 : UpperCase[i] = c]
  ELSE c

ToUpperCh(c) ==
  IF \E i \in 1..26 : LowerCase[i] = c
  THEN UpperCase[CHOOSE i \in 1..26 : LowerCase[i] = c]
  ELSE c

\* strings.ToLower
ToLower(s) == [i \in 1..Len(s) |-> ToLowerCh(s[i])]

ToUpper(s) == [i \in 1..Len(s) |-> ToUpperCh(s[i])]

\* the white space strings.TrimSpace removes
WhiteSpace == {" ", "\t", "\n", "\r"}

\* s[lo:hi] of Go, lo and hi counted from 0; Go panics unless SliceOK
SliceOK(s, lo, hi) == 0 <= lo /\ lo <= hi /\ hi <= Len(s)

Slice(s, lo, hi) == SubSeq(s, lo + 1, hi)

HasPrefix(s, p) == Len(s) >= Len(p) /\ SubSeq(s, 1, Len(p)) = p

HasSuffix(s, p) ==
  Len(s) >= Len(p) /\ SubSeq(s, Len(s) - Len(p) + 1, Len(s)) = p

\* strings.Index: the 0-based position of the first sub in s, -1 if none
Index(s, sub) ==
  LET hits == { i \in 0..(Len(s) - Len(sub)) : SubSeq(s, i + 1, i + Len(sub)) = sub }
  IN IF hits = {} THEN -1 ELSE CHOOSE i \in hits : \A j \in hits : i <= j

Contains(s, sub) == Index(s, sub) # -1

TrimPrefix(s, p) == IF HasPrefix(s, p) THEN SubSeq(s, Len(p) + 1, Len(s)) ELSE s

TrimSuffix(s, p) == IF HasSuffix(s, p) THEN SubSeq(s, 1, Len(s) - Len(p)) ELSE s

\* strings.Trim(s, cutset): drop leading and trailing characters of cutset
TrimSet(s, cut) ==
  LET keep == { i \in 1..Len(s) : s[i] \notin cut }
  IN IF keep = {} THEN <<>>
     ELSE SubSeq(s, CHOOSE i \in keep : \A j \in keep : i <= j,
                    CHOOSE i \in keep : \A j \in keep : i >= j)

TrimSpace(s) == TrimSet(s, WhiteSpace)

\* strings.SplitN(s, sep, 2)
SplitN2(s, sep) ==
  LET i == Index(s, sep)
  IN IF i = -1 THEN <<s>>
     ELSE <<SubSeq(s, 1, i), SubSeq(s, i + Len(sep) + 1, Len(s))>>

\* strings.Split(s, sep), sep not empty
RECURSIVE Split(_, _)
Split(s, sep) ==
  LET i == Index(s, sep)
  IN IF i = -1 THEN <<s>>
     ELSE <<SubSeq(s, 1, i)>> \o Split(SubSeq(s, i + Len(sep) + 1, Len(s)), sep)

\* strings.ReplaceAll(s, old, new) for a one-character old
RECURSIVE ReplaceAll(_, _, _)
ReplaceAll(s, old, new) ==
  IF s = <<>> THEN <<>>
  ELSE (IF <<Head(s)>> = old THEN new ELSE <<Head(s)>>) \o ReplaceAll(Tail(s), old, new)

\* s < t in byte order
RECURSIVE StrLess(_, _)
StrLess(s, t) ==
  IF t = <<>> THEN FALSE
  ELSE IF s = <<>> THEN TRUE
  ELSE IF Head(s) # Head(t) THEN Ord(Head(s)) < Ord(Head(t))
  ELSE StrLess(Tail(s), Tail(t))

\* sort.Strings of a set of keys
RECURSIVE SortStrings(_)
SortStrings(S) ==
  IF S = {} THEN <<>>
  ELSE LET m == CHOOSE x \in S : \A y \in S : x = y \/ StrLess(x, y)
       IN <<m>> \o SortStrings(S \ {m})

\* every order in which the keys of a Go map can be ranged over
RECURSIVE Perms(_)
Perms(S) ==
  IF S = {} THEN {<<>>}
  ELSE UNION { { <<x>> \o p : p \in Perms(S \ {x}) } : x \in S }

----------------------------------------------------------------------------
(* strconv                                                                 *)

\* the longest decimal literal the model's integers can hold
MaxDigits == 9

AllDigits(s) == s # <<>> /\ \A i \in 1..Len(s) : IsDigit(s[i])

RECURSIVE DigitsToNat(_)
DigitsToNat(s) ==
  IF s = <<>> THEN 0 ELSE DigitsToNat(SubSeq(s, 1, Len(s) - 1)) * 10 + DigitVal(s[Len(s)])

RECURSIVE StripZeros(_)
StripZeros(s) == IF Len(s) > 1 /\ Head(s) = "0" THEN StripZeros(Tail(s)) ELSE s

\* strconv.ParseInt(s, 10, 64): an optional sign, then decimal digits; a
\* literal longer than MaxDigits is a range error
ParseInt(s) ==
  LET signed == s # <<>> /\ Head(s) \in {"+", "-"}
      body   == IF signed THEN Tail(s) ELSE s
  IN IF ~AllDigits(body) \/ Len(StripZeros(body)) > MaxDigits
     THEN [ok |-> FALSE, val |-> 0]
     ELSE [ok |-> TRUE,
           val |-> IF signed /\ Head(s) = "-" THEN 0 - DigitsToNat(body)
                   ELSE DigitsToNat(body)]

RECURSIVE NatToDigits(_)
NatToDigits(n) ==
  IF n < 10 THEN <<Digits[n + 1]>> ELSE NatToDigits(n \div 10) \o <<Digits[(n % 10) + 1]>>

\* strconv.FormatInt(n, 10)
FormatInt(n) == IF n < 0 THEN <<"-">> \o NatToDigits(0 - n) ELSE NatToDigits(n)

\* a decimal mantissa: digits with at most one point and at least one digit
IsMantissa(s) ==
  /\ \E i \in 1..Len(s) : IsDigit(s[i])
  /\ \A i \in 1..Len(s) : IsDigit(s[i]) \/ s[i] = "."
  /\ Cardinality({ i \in 1..Len(s) : s[i] = "." }) <= 1

\* strconv.ParseFloat(s, 64) succeeds: an optional sign, then inf, infinity
\* or nan in any case, or a decimal mantissa with an optional exponent
ParseFloatOK(s) ==
  LET signed == s # <<>> /\ Head(s) \in {"+", "-"}
      body   == ToLower(IF signed THEN Tail(s) ELSE s)
      e      == Index(body, <<"e">>)
      ex     == SubSeq(body, e + 2, Len(body))
      exBody == IF ex # <<>> /\ Head(ex) \in {"+", "-"} THEN Tail(ex) ELSE ex
  IN \/ body \in {<<"i", "n", "f">>, <<"i", "n", "f", "i", "n", "i", "t", "y">>}
     \/ body = <<"n", "a", "n">> /\ ~signed
     \/ IsMantissa(body)
     \/ e # -1 /\ IsMantissa(SubSeq(body, 1, e)) /\ AllDigits(exBody)

----------------------------------------------------------------------------
(* package protocol: LineProtocol, New, Parse                              *)

\* an empty Go map
EmptyMap == [k \in {} |-> <<>>]

\* m[k] = v
MapPut(m, k, v) == [x \in (DOMAIN m) \cup {k} |-> IF x = k THEN v ELSE m[x]]

\* New(measurement): nil maps, empty order slices, timestamp 0
New(measurement) ==
  [Measurement |-> measurement,
   TagsNil     |-> TRUE,
   Tags        |-> EmptyMap,
   FieldsNil   |-> TRUE,
   Fields      |-> EmptyMap,
   Timestamp   |-> 0,
   fieldOrder  |-> <<>>,
   tagOrder    |-> <<>>]

\* the three ways a call ends: a record, an error value, a runtime panic
Ok(r) == [status |-> "ok", err |-> "", lp |-> r]

Err(e) == [status |-> "err", err |-> e, lp |-> New(<<>>)]

Panic(e) == [status |-> "panic", err |-> e, lp |-> New(<<>>)]

\* the loop that looks for the closing quote of a quoted measurement:
\* the value of i (0-based) when the loop ends
RECURSIVE ScanQuote(_, _, _)
ScanQuote(s, i, inEscape) ==
  IF i >= Len(s) THEN i
  ELSE IF inEscape THEN ScanQuote(s, i + 1, FALSE)
  ELSE IF s[i + 1] = "\\" THEN ScanQuote(s, i + 1, TRUE)
  ELSE IF s[i + 1] = "\"" THEN i
  ELSE ScanQuote(s, i + 1, FALSE)

\* the measurement and the tag text of parts[0]
ParseMeasurement(measurementAndTags) ==
  IF HasPrefix(measurementAndTags, <<"\"">>)
  THEN LET i == ScanQuote(measurementAndTags, 1, FALSE)
           n == Len(measurementAndTags)
       IN IF i >= n THEN [err |-> "unterminated quoted measurement",
                          measurement |-> <<>>, tags |-> <<>>]
          ELSE IF i + 1 < n /\ measurementAndTags[i + 2] # ","
          THEN [err |-> "invalid character after quoted measurement",
                measurement |-> <<>>, tags |-> <<>>]
          ELSE [err |-> "",
                measurement |-> Slice(measurementAndTags, 1, i),
                tags |-> IF i + 1 < n THEN Slice(measurementAndTags, i + 2, n)
                         ELSE <<>>]
  ELSE LET measurementParts == SplitN2(measurementAndTags, <<",">>)
       IN [err |-> "",
           measurement |-> measurementParts[1],
           tags |-> IF Len(measurementParts) > 1 THEN measurementParts[2] ELSE <<>>]

\* one pass of the tag loop: the value with its quotes stripped, or a panic
\* of value[1 : len(value)-1]
TagValue(value) ==
  IF HasPrefix(value, <<"\"">>) /\ HasSuffix(value, <<"\"">>)
  THEN IF SliceOK(value, 1, Len(value) - 1)
       THEN [panic |-> FALSE, value |-> Slice(value, 1, Len(value) - 1)]
       ELSE [panic |-> TRUE, value |-> <<>>]
  ELSE [panic |-> FALSE, value |-> value]

\* the tag loop over tagPairs from position n on; acc is lp so far
RECURSIVE ParseTags(_, _, _)
ParseTags(tagPairs, n, acc) ==
  IF n > Len(tagPairs) THEN Ok(acc)
  ELSE LET kv == SplitN2(tagPairs[n], <<"=">>)
       IN IF Len(kv) # 2 THEN Err("invalid tag format")
          ELSE LET key == TrimSpace(kv[1])
                   tv  == TagValue(TrimSpace(kv[2]))
               IN IF tv.panic THEN Panic("slice bounds out of range")
                  ELSE IF key = <<>> THEN Err("empty tag key")
                  ELSE IF tv.value = <<>> THEN Err("empty tag value")
                  ELSE ParseTags(tagPairs, n + 1,
                         [acc EXCEPT !.Tags = MapPut(acc.Tags, key, tv.value),
                                     !.tagOrder = Append(acc.tagOrder, key)])

\* FieldValue with the boolean branch storing the literal as written
FieldValue_Mut(value) ==
  IF HasPrefix(value, <<"\"">>) /\ HasSuffix(value, <<"\"">>)
  THEN IF Len(value) < 2
       THEN [err |-> "invalid string field value", type |-> "", stored |-> <<>>]
       ELSE [err |-> "", type |-> "string", stored |-> value]
  ELSE IF HasSuffix(value, <<"i">>)
  THEN IF ~ParseInt(Slice(value, 0, Len(value) - 1)).ok
       THEN [err |-> "invalid integer field value", type |-> "", stored |-> <<>>]
       ELSE [err |-> "", type |-> "integer", stored |-> value]
  ELSE IF ToLower(value) = <<"t", "r", "u", "e">>
          \/ ToLower(value) = <<"f", "a", "l", "s", "e">>
  THEN [err |-> "", type |-> "boolean", stored |-> value]
  ELSE IF ~ParseFloatOK(value)
  THEN [err |-> "invalid numeric field value", type |-> "", stored |-> <<>>]
  ELSE [err |-> "", type |-> "float", stored |-> value]

\* the type of a trimmed field literal and the text stored for it
FieldValue(value) ==
  IF HasPrefix(value, <<"\"">>) /\ HasSuffix(value, <<"\"">>)
  THEN IF Len(value) < 2
       THEN [err |-> "invalid string field value", type |-> "", stored |-> <<>>]
       ELSE [err |-> "", type |-> "string", stored |-> value]
  ELSE IF HasSuffix(value, <<"i">>)
  THEN IF ~ParseInt(Slice(value, 0, Len(value) - 1)).ok
       THEN [err |-> "invalid integer field value", type |-> "", stored |-> <<>>]
       ELSE [err |-> "", type |-> "integer", stored |-> value]
  ELSE IF ToLower(value) = <<"t", "r", "u", "e">>
          \/ ToLower(value) = <<"f", "a", "l", "s", "e">>
  THEN [err |-> "", type |-> "boolean", stored |-> ToLower(value)]
  ELSE IF ~ParseFloatOK(value)
  THEN [err |-> "invalid numeric field value", type |-> "", stored |-> <<>>]
  ELSE [err |-> "", type |-> "float", stored |-> value]

\* the field loop over fields from position n on; acc is lp so far
RECURSIVE ParseFields(_, _, _)
ParseFields(fields, n, acc) ==
  IF n > Len(fields) THEN Ok(acc)
  ELSE LET kv == SplitN2(fields[n], <<"=">>)
       IN IF Len(kv) # 2 THEN Err("invalid field format")
          ELSE LET key == TrimSpace(kv[1])
                   fv  == FieldValue(TrimSpace(kv[2]))
               IN IF key = <<>> THEN Err("empty field key")
                  ELSE IF fv.err # "" THEN Err(fv.err)
                  ELSE ParseFields(fields, n + 1,
                         [acc EXCEPT !.Fields = MapPut(acc.Fields, key, fv.stored),
                                     !.fieldOrder = Append(acc.fieldOrder, key)])

\* the optional timestamp after the fields
ParseTimestamp(fieldsAndTime, acc) ==
  IF Len(fieldsAndTime) > 1
  THEN LET ts == ParseInt(fieldsAndTime[2])
       IN IF ~ts.ok THEN Err("invalid timestamp")
          ELSE Ok([acc EXCEPT !.Timestamp = ts.val])
  ELSE Ok(acc)

\* Parse(line)
Parse(line0) ==
  LET trimmed == TrimSpace(line0)
      parts   == SplitN2(trimmed, <<" ">>)
  IN IF Len(parts) # 2 THEN Err("invalid line protocol format")
     ELSE
     LET mt == ParseMeasurement(parts[1])
     IN IF mt.err # "" THEN Err(mt.err)
        ELSE IF mt.measurement = <<>> THEN Err("empty measurement")
        ELSE
        LET lp0 == [New(<<>>) EXCEPT !.Measurement = mt.measurement]
            tg  == IF mt.tags # <<>>
                   THEN ParseTags(Split(mt.tags, <<",">>), 1,
                                  [lp0 EXCEPT !.TagsNil = FALSE])
                   ELSE Ok([lp0 EXCEPT !.TagsNil = TRUE, !.tagOrder = <<>>])
        IN IF tg.status # "ok" THEN tg
           ELSE
           LET fieldsAndTime == SplitN2(parts[2], <<" ">>)
           IN IF Len(fieldsAndTime) = 0 THEN Err("missing fields")
              ELSE
              LET fl == ParseFields(Split(fieldsAndTime[1], <<",">>), 1,
                                    [tg.lp EXCEPT !.FieldsNil = FALSE])
              IN IF fl.status # "ok" THEN fl
                 ELSE ParseTimestamp(fieldsAndTime, fl.lp)

----------------------------------------------------------------------------
(* package protocol: LineProtocol.String                                   *)

\* a measurement or tag value between quotes, its quotes escaped
Quoted(s) == <<"\"">> \o ReplaceAll(s, <<"\"">>, <<"\\", "\"">>) \o <<"\"">>

WriteMeasurement(m) ==
  IF Contains(m, <<" ">>) \/ Contains(m, <<",">>) THEN Quoted(m) ELSE m

\* ",k=v" for the keys of order, one after the other
RECURSIVE WriteTags(_, _)
WriteTags(tags, order) ==
  IF order = <<>> THEN <<>>
  ELSE LET k == Head(order)
           v == tags[k]
       IN <<",">> \o k \o <<"=">>
          \o (IF Contains(v, <<" ">>) THEN Quoted(v) ELSE v)
          \o WriteTags(tags, Tail(order))

\* "k=v" for the keys of order, joined by commas
RECURSIVE WriteFields(_, _, _)
WriteFields(fields, order, first) ==
  IF order = <<>> THEN <<>>
  ELSE LET k == Head(order)
       IN (IF first THEN <<>> ELSE <<",">>) \o k \o <<"=">> \o fields[k]
          \o WriteFields(fields, Tail(order), FALSE)

\* the orders in which String can write the fields of r: fieldOrder, or any
\* order of the keys when the range over the map decides
FieldIterOrders(r) ==
  IF r.FieldsNil THEN {<<>>}
  ELSE IF Len(r.fieldOrder) > 0 THEN {r.fieldOrder}
  ELSE Perms(DOMAIN r.Fields)

\* String with the tags always written in sorted key order
String_Mut(r, iter) ==
  WriteMeasurement(r.Measurement)
  \o (IF ~r.TagsNil THEN WriteTags(r.Tags, SortStrings(DOMAIN r.Tags)) ELSE <<>>)
  \o <<" ">>
  \o WriteFields(r.Fields, iter, TRUE)
  \o (IF r.Timestamp > 0 THEN <<" ">> \o FormatInt(r.Timestamp) ELSE <<>>)

\* lp.String(), the fields written in the order iter
String(r, iter) ==
  WriteMeasurement(r.Measurement)
  \o (IF ~r.TagsNil /\ Len(r.tagOrder) > 0 THEN WriteTags(r.Tags, r.tagOrder)
      ELSE IF ~r.TagsNil THEN WriteTags(r.Tags, SortStrings(DOMAIN r.Tags))
      ELSE <<>>)
  \o <<" ">>
  \o WriteFields(r.Fields, iter, TRUE)
  \o (IF r.Timestamp > 0 THEN <<" ">> \o FormatInt(r.Timestamp) ELSE <<>>)

----------------------------------------------------------------------------
(* package persistence: Manager                                            *)

\* SaveMeasurement: one more row of the table points, with the one field
SaveRow(measurement, field, value, tags, timestamp) ==
  [measurement |-> measurement,
   timestamp   |-> timestamp,
   tags        |-> tags,
   fields      |-> MapPut(EmptyMap, field, value)]

\* the rows of a sequence in ascending timestamp order, rows of equal
\* timestamp in the order of their ids (ORDER BY timestamp)
RECURSIVE OrderByTimestamp(_)
OrderByTimestamp(rows) ==
  IF rows = <<>> THEN <<>>
  ELSE LET i == CHOOSE i \in 1..Len(rows) :
                  /\ \A j \in 1..Len(rows) : rows[i].timestamp <= rows[j].timestamp
                  /\ \A j \in 1..(i - 1) : rows[j].timestamp # rows[i].timestamp
       IN <<rows[i]>>
          \o OrderByTimestamp(SubSeq(rows, 1, i - 1) \o SubSeq(rows, i + 1, Len(rows)))

\* WhereRows with an exclusive upper bound
RECURSIVE WhereRows_Mut(_, _, _, _)
WhereRows_Mut(rows, measurement, start, end) ==
  IF rows = <<>> THEN <<>>
  ELSE (IF /\ Head(rows).measurement = measurement
           /\ Head(rows).timestamp >= start
           /\ Head(rows).timestamp < end
        THEN <<Head(rows)>> ELSE <<>>)
       \o WhereRows_Mut(Tail(rows), measurement, start, end)

\* the rows of a sequence that satisfy the WHERE clause, in id order
RECURSIVE WhereRows(_, _, _, _)
WhereRows(rows, measurement, start, end) ==
  IF rows = <<>> THEN <<>>
  ELSE (IF /\ Head(rows).measurement = measurement
           /\ Head(rows).timestamp >= start
           /\ Head(rows).timestamp <= end
        THEN <<Head(rows)>> ELSE <<>>)
       \o WhereRows(Tail(rows), measurement, start, end)

\* GetMeasurementRange(measurement, start, end) on the table rows
GetMeasurementRange(rows, measurement, start, end) ==
  LET found == OrderByTimestamp(WhereRows(rows, measurement, start, end))
  IN [i \in 1..Len(found) |->
        [Measurement |-> measurement,
         Tags        |-> found[i].tags,
         Fields      |-> found[i].fields,
         Timestamp   |-> found[i].timestamp]]

\* the Point made of a row found
PointOf(measurement, row) ==
  [Measurement |-> measurement,
   Tags        |-> row.tags,
   Fields      |-> row.fields,
   Timestamp   |-> row.timestamp]

\* the order p of the rows found is ascending in timestamp
Ascending(found, p) ==
  \A k \in 1..(Len(p) - 1) : found[p[k]].timestamp <= found[p[k + 1]].timestamp

\* the results ORDER BY timestamp allows for the rows found: SQL leaves the
\* order of rows of equal timestamp open
PointsIn(measurement, found) ==
  { [k \in 1..Len(found) |-> PointOf(measurement, found[p[k]])] :
      p \in { o \in Perms(1..Len(found)) : Ascending(found, o) } }

\* the results GetMeasurementRange(measurement, start, end) can return
RangeResults(rows, measurement, start, end) ==
  PointsIn(measurement, WhereRows(rows, measurement, start, end))

\* SELECT MIN(timestamp), MAX(timestamp) FROM points WHERE measurement = ?
\* scanned into two int64: with no row of the measurement both are NULL and
\* Scan refuses them
TimeRangeScan(rows, measurement) ==
  IF \E i \in 1..Len(rows) : rows[i].measurement = measurement
  THEN "" ELSE "failed to get time range"

\* points, err of GetMeasurementRange(measurement, start, end). The
\* repository has the Manager twice: without the queries that precede the
\* SELECT of the rows, and with them; a build has one of the two
RangeOutcomes(rows, measurement, start, end) ==
  { [err |-> "", points |-> points] :
      points \in RangeResults(rows, measurement, start, end) }
  \cup (IF TimeRangeScan(rows, measurement) = "" THEN {}
        ELSE {[err |-> TimeRangeScan(rows, measurement), points |-> <<>>]})

\* ListTimeseries missing the first row of the table
ListTimeseries_Mut(rows) == { rows[i].measurement : i \in 2..Len(rows) }

\* SELECT DISTINCT measurement FROM points
ListTimeseries(rows) == { rows[i].measurement : i \in 1..Len(rows) }

----------------------------------------------------------------------------
(* package server: handleV1Query                                           *)

\* nanoseconds in one unit of model time
Unit == 10 ^ 3

\* the 1000000 of startTime *= 1000000 and of UnixNano() / 1000000
NsPerMs == 1000000 \div Unit

\* the 1e9 of 5 * 60 * 1e9 and of mins * 60 * 1e9
NsPerSec == 1000000000 \div Unit

\* a / b of Go: the quotient truncated toward zero (b # 0)
GoDiv(a, b) ==
  LET q == (IF a < 0 THEN 0 - a ELSE a) \div (IF b < 0 THEN 0 - b ELSE b)
  IN IF (a < 0) = (b < 0) THEN q ELSE 0 - q

\* a % b of Go: the remainder has the sign of a (b # 0)
GoMod(a, b) == a - b * GoDiv(a, b)

\* the words the handler looks for in the lowercased query
Select == <<"s", "e", "l", "e", "c", "t">>

From == <<"f", "r", "o", "m">>

Where == <<"w", "h", "e", "r", "e">>

Time == <<"t", "i", "m", "e">>

And == <<"a", "n", "d">>

Ms == <<"m", "s">>

GroupBy == <<"g", "r", "o", "u", "p", " ", "b", "y">>

Show == <<"s", "h", "o", "w">>

Databases == <<"d", "a", "t", "a", "b", "a", "s", "e", "s">>

Measurements == <<"m", "e", "a", "s", "u", "r", "e", "m", "e", "n", "t", "s">>

Create == <<"c", "r", "e", "a", "t", "e">>

Database == <<"d", "a", "t", "a", "b", "a", "s", "e">>

Use == <<"u", "s", "e">>

Mean == <<"m", "e", "a", "n">>

\* aggFuncs
AggFuncs ==
  << Mean, <<"s", "u", "m">>, <<"c", "o", "u", "n", "t">>,
     <<"m", "i", "n">>, <<"m", "a", "x">> >>

\* strings.Fields: the maximal runs of characters that are not white space
RECURSIVE Fields(_)
Fields(s) ==
  LET t == TrimSpace(s)
      ws == { i \in 1..Len(t) : t[i] \in WhiteSpace }
  IN IF t = <<>> THEN <<>>
     ELSE IF ws = {} THEN <<t>>
     ELSE LET i == CHOOSE i \in ws : \A j \in ws : i <= j
          IN <<SubSeq(t, 1, i - 1)>> \o Fields(SubSeq(t, i + 1, Len(t)))

\* the literal read when it has the ms suffix: startTime *= 1000000
MsBound(p) == IF ~p.ok THEN p ELSE [ok |-> TRUE, val |-> p.val * NsPerMs]

\* a time literal, with the ms suffix or without
ParseBound(str) ==
  IF HasSuffix(str, Ms) THEN MsBound(ParseInt(TrimSuffix(str, Ms)))
  ELSE ParseInt(str)

\* startTime from the text after ">=", read up to the "and" at endIdx
StartUpTo(startStr, endIdx, cur) ==
  IF endIdx = -1 THEN [ok |-> TRUE, val |-> cur]
  ELSE ParseBound(TrimSpace(Slice(startStr, 0, endIdx)))

\* startTime from the text after ">="
StartAfter(startStr, cur) == StartUpTo(startStr, Index(startStr, And), cur)

\* startTime when ">=" is at startIdx of timePart
StartAt(timePart, startIdx, cur) ==
  IF startIdx = -1 THEN [ok |-> TRUE, val |-> cur]
  ELSE StartAfter(TrimSpace(Slice(timePart, startIdx + 2, Len(timePart))), cur)

\* the >= condition: startTime, cur when it is not assigned
StartBound(timePart, cur) == StartAt(timePart, Index(timePart, <<">", "=">>), cur)

\* endTime from the text after "<=", read up to the space at spaceIdx
EndUpTo(endStr, spaceIdx) ==
  ParseBound(IF spaceIdx # -1 THEN Slice(endStr, 0, spaceIdx) ELSE endStr)

\* endTime from the text after "<="
EndAfter(endStr) == EndUpTo(endStr, Index(endStr, <<" ">>))

\* endTime when "<=" is at endIdx of timePart
EndAt(timePart, endIdx, cur) ==
  IF endIdx = -1 THEN [ok |-> TRUE, val |-> cur]
  ELSE EndAfter(TrimSpace(Slice(timePart, endIdx + 2, Len(timePart))))

\* the <= condition: endTime, cur when it is not assigned
EndBound(timePart, cur) == EndAt(timePart, Index(timePart, <<"<", "=">>), cur)

\* the aggregation function selectPart starts with, <<>> when none
Aggregation(selectPart) ==
  LET hits == { i \in 1..Len(AggFuncs) : HasPrefix(selectPart, AggFuncs[i] \o <<"(">>) }
  IN IF hits = {} THEN <<>>
     ELSE AggFuncs[CHOOSE i \in hits : \A j \in hits : i <= j]

\* strings.Trim(strings.Trim(s, "\""), "\\\"")
StripQuotes(s) == TrimSet(TrimSet(s, {"\""}), {"\\", "\""})

\* the time range once both conditions are read, and the text before WHERE
TimeRange(fromPart, whereIdx, now, sb, eb) ==
  IF ~sb.ok
  THEN [err |-> "invalid start time format", startTime |-> 0,
        endTime |-> now, fromPart |-> fromPart]
  ELSE IF ~eb.ok
  THEN [err |-> "invalid end time format", startTime |-> 0,
        endTime |-> now, fromPart |-> fromPart]
  ELSE [err |-> "", startTime |-> sb.val, endTime |-> eb.val,
        fromPart |-> TrimSpace(Slice(fromPart, 0, whereIdx))]

\* the conditions of timePart, the text after "time"
TimeConditions_Mut(fromPart, whereIdx, now, timePart) ==
  TimeRange(fromPart, whereIdx, now, StartBound(timePart, now), EndBound(timePart, now))

TimeConditions(fromPart, whereIdx, now, timePart) ==
  TimeRange(fromPart, whereIdx, now, StartBound(timePart, 0), EndBound(timePart, now))

\* the WHERE clause whereClause, with "time" at timeIdx
TimeAt(fromPart, whereIdx, now, whereClause, timeIdx) ==
  IF timeIdx = -1
  THEN [err |-> "", startTime |-> 0, endTime |-> now,
        fromPart |-> TrimSpace(Slice(fromPart, 0, whereIdx))]
  ELSE TimeConditions(fromPart, whereIdx, now,
                      TrimSpace(Slice(whereClause, timeIdx + 4, Len(whereClause))))

\* the text after "where"
WhereText(fromPart, whereIdx, now, whereClause) ==
  TimeAt(fromPart, whereIdx, now, whereClause, Index(whereClause, Time))

\* fromPart with "where" at whereIdx
WhereAt(fromPart, whereIdx, now) ==
  IF whereIdx = -1
  THEN [err |-> "", startTime |-> 0, endTime |-> now, fromPart |-> fromPart]
  ELSE WhereText(fromPart, whereIdx, now,
                 TrimSpace(Slice(fromPart, whereIdx + 5, Len(fromPart))))

\* the WHERE clause of fromPart: the time range, and the text before it
WhereClause(fromPart, now) == WhereAt(fromPart, Index(fromPart, Where), now)

\* the query once its WHERE clause is read
FromClause(aggregation, field, now, wc) ==
  IF wc.err # ""
  THEN [err |-> wc.err, measurement |-> <<>>, aggregation |-> aggregation,
        field |-> field, startTime |-> 0, endTime |-> now]
  ELSE [err |-> "",
        measurement |-> StripQuotes(TrimSpace(Split(wc.fromPart, GroupBy)[1])),
        aggregation |-> aggregation,
        field |-> StripQuotes(field),
        startTime |-> wc.startTime,
        endTime |-> wc.endTime]

\* the query once aggregation and field are read from selectPart
SelectFrom(parts, aggregation, field, now) ==
  IF Len(parts) <= 1
  THEN [err |-> "", measurement |-> <<>>, aggregation |-> aggregation,
        field |-> StripQuotes(field), startTime |-> 0, endTime |-> now]
  ELSE FromClause(aggregation, field, now, WhereClause(TrimSpace(parts[2]), now))

\* the field selected: the text between the parentheses of an aggregation
FieldPart(selectPart, aggregation) ==
  IF aggregation # <<>> THEN TrimSet(Split(selectPart, <<"(">>)[2], {")"})
  ELSE selectPart

\* the query whose text before "from" is selectPart
SelectPart(parts, selectPart, aggregation, now) ==
  SelectFrom(parts, aggregation, FieldPart(selectPart, aggregation), now)

\* the query split at "from"
SelectParts(parts, selectPart, now) ==
  SelectPart(parts, selectPart, Aggregation(selectPart), now)

\* measurement, aggregation, field, startTime and endTime of the query
ParseSelect(queryLower, now) ==
  IF ~HasPrefix(queryLower, Select)
  THEN [err |-> "", measurement |-> <<>>, aggregation |-> <<>>,
        field |-> StripQuotes(<<"*">>), startTime |-> 0, endTime |-> now]
  ELSE SelectParts(Split(queryLower, From),
                   TrimSpace(TrimPrefix(Split(queryLower, From)[1], Select)), now)

\* the interval of "group by time(" followed by groupByPart
GroupByMinutes(hasMinutes, mins) ==
  IF hasMinutes /\ mins.ok
  THEN [panic |-> FALSE, val |-> mins.val * 60 * NsPerSec]
  ELSE [panic |-> FALSE, val |-> 5 * 60 * NsPerSec]

\* the interval read from cut, the query split at "group by time("
GroupByPart(queryLower, cut) ==
  IF ~Contains(queryLower, GroupBy \o <<" ">> \o Time)
  THEN [panic |-> FALSE, val |-> 5 * 60 * NsPerSec]
  ELSE IF Len(cut) < 2 THEN [panic |-> TRUE, val |-> 0]
  ELSE GroupByMinutes(Contains(cut[2], <<"m", ")">>),
                      ParseInt(Split(cut[2], <<"m", ")">>)[1]))

\* groupByInterval of a mean query; Go panics when the text after
\* "group by time" does not start with "("
GroupByInterval(queryLower) ==
  GroupByPart(queryLower, Split(queryLower, GroupBy \o <<" ">> \o Time \o <<"(">>))

\* bucketTime := ts - (ts % groupByInterval)
BucketTime(ts, groupByInterval) == ts - GoMod(ts, groupByInterval)

\* groupedPoints after the loop over points
RECURSIVE GroupPoints(_, _, _, _)
GroupPoints(points, field, groupByInterval, acc) ==
  IF points = <<>> THEN acc
  ELSE LET point == Head(points)
           b     == BucketTime(point.Timestamp, groupByInterval)
       IN GroupPoints(Tail(points), field, groupByInterval,
            IF field \in DOMAIN point.Fields
            THEN MapPut(acc, b,
                   (IF b \in DOMAIN acc THEN acc[b] ELSE <<>>)
                   \o <<point.Fields[field]>>)
            ELSE acc)

\* SortSlice leaving the slice in the order of the range over the map
SortSlice_Mut(timestamps) == timestamps

\* sort.Slice(timestamps, less)
RECURSIVE SortSlice(_)
SortSlice(timestamps) ==
  IF timestamps = <<>> THEN <<>>
  ELSE LET i == CHOOSE i \in 1..Len(timestamps) :
                  \A j \in 1..Len(timestamps) : timestamps[i] <= timestamps[j]
       IN <<timestamps[i]>>
          \o SortSlice(SubSeq(timestamps, 1, i - 1)
                       \o SubSeq(timestamps, i + 1, Len(timestamps)))

RECURSIVE SumSeq(_)
SumSeq(values) == IF values = <<>> THEN 0 ELSE Head(values) + SumSeq(Tail(values))

\* mean := sum / float64(len(values)), kept as the exact quotient sum / n
MeanOf(values) == [sum |-> SumSeq(values), n |-> Len(values)]

\* a point value shown as it is
Plain(v) == [sum |-> v, n |-> 1]

\* the rows {tsMillis, mean} for the buckets in the order keys
MeanRows(groupedPoints, keys) ==
  LET timestamps == SortSlice(keys)
  IN [i \in 1..Len(timestamps) |->
        [time  |-> GoDiv(timestamps[i], NsPerMs),
         value |-> MeanOf(groupedPoints[timestamps[i]])]]

\* the rows {tsMillis, value} of a query without mean; a point read from
\* the store has one field
RECURSIVE PlainRows(_, _)
PlainRows(points, field) ==
  IF points = <<>> THEN <<>>
  ELSE LET point == Head(points)
           keys  == IF field = <<"*">> THEN DOMAIN point.Fields
                    ELSE DOMAIN point.Fields \cap {field}
       IN [i \in 1..Cardinality(keys) |->
             [time  |-> GoDiv(point.Timestamp, NsPerMs),
              value |-> Plain(point.Fields[CHOOSE k \in keys : TRUE])]]
          \o PlainRows(Tail(points), field)

\* what the handler parsed, as it logs it, and the interval of a mean query
NoDesc ==
  [measurement |-> <<>>, aggregation |-> <<>>, field |-> <<>>,
   startTime |-> 0, endTime |-> 0, groupByInterval |-> 0]

\* the answer of the handler: status, series name, columns, rows
Response(status, desc, name, columns, values) ==
  [status |-> status, desc |-> desc, name |-> name,
   columns |-> columns, values |-> values, error |-> ""]

\* the answer c.JSON(status, gin.H{"error": error}) that ends the handler
\* before the store is read
Failure(status, error) ==
  [status |-> status, desc |-> NoDesc, name |-> <<>>,
   columns |-> <<>>, values |-> <<>>, error |-> error]

\* what the handler parsed, with the interval of a mean query
Desc(sel, groupByInterval) ==
  [measurement |-> sel.measurement, aggregation |-> sel.aggregation,
   field |-> sel.field, startTime |-> sel.startTime,
   endTime |-> sel.endTime, groupByInterval |-> groupByInterval]

\* the answers of a mean query, one for each order in which the range over
\* groupedPoints can visit the buckets
MeanAnswers(sel, gi, grouped) ==
  { Response(200, Desc(sel, gi.val), sel.measurement, <<Time, Mean>>,
             MeanRows(grouped, keys)) :
      keys \in Perms(DOMAIN grouped) }

\* the answers for the points read from the store
PointAnswers(sel, gi, points) ==
  IF sel.aggregation = Mean
  THEN IF gi.panic \/ (gi.val = 0 /\ \E i \in 1..Len(points) :
                                       sel.field \in DOMAIN points[i].Fields)
       THEN {Response(500, NoDesc, <<"p", "a", "n", "i", "c">>, <<>>, <<>>)}
       ELSE MeanAnswers(sel, gi, GroupPoints(points, sel.field, gi.val, EmptyMap))
  ELSE {Response(200, Desc(sel, 0), sel.measurement, <<Time, sel.field>>,
                 PlainRows(points, sel.field))}

\* the answers for the parsed query sel; the store is read through the
\* Manager without the queries that precede the SELECT of the rows
SelectAnswers(rows, sel, gi) ==
  IF sel.err # "" THEN {Failure(400, sel.err)}
  ELSE IF sel.measurement = <<>> THEN {Failure(400, "invalid query format")}
  ELSE PointAnswers(sel, gi,
         GetMeasurementRange(rows, sel.measurement, sel.startTime, sel.endTime))

\* the answers of a SELECT
SelectResponses(queryLower, rows, now) ==
  SelectAnswers(rows, ParseSelect(queryLower, now), GroupByInterval(queryLower))

\* the answers of handleV1Query to the query q with the parameter db
V1QueryResponses(q, db, rows, now) ==
  LET queryLower == ToLower(q)
  IN IF q = <<>> THEN {Response(400, NoDesc, <<>>, <<>>, <<>>)}
     ELSE IF queryLower = Show \o <<" ">> \o Databases
     THEN {Response(200, NoDesc, Databases, <<<<"n", "a", "m", "e">>>>,
                    <<<<"m", "y", "d", "b">>>>)}
     ELSE IF queryLower = Show \o <<" ">> \o Measurements
     THEN { Response(200, NoDesc, Measurements, <<<<"n", "a", "m", "e">>>>, names) :
              names \in Perms(ListTimeseries(rows)) }
     ELSE IF HasPrefix(queryLower, Create \o <<" ">> \o Database)
     THEN {Response(IF Len(Fields(q)) < 3 THEN 400 ELSE 200, NoDesc, <<>>, <<>>, <<>>)}
     ELSE IF HasPrefix(queryLower, Use)
     THEN {Response(IF Len(Fields(q)) < 2 THEN 400 ELSE 200, NoDesc, <<>>, <<>>, <<>>)}
     ELSE IF db = <<>> THEN {Response(400, NoDesc, <<>>, <<>>, <<>>)}
     ELSE SelectResponses(queryLower, rows, now)

----------------------------------------------------------------------------
(* The three ingest paths: handleWrite (POST /api/v2/write),               *)
(* handleV1Write (POST /write) and the receive loop of the UDP server.     *)

\* a float64: a finite value, or +Inf, -Inf or NaN, which json.Marshal
\* refuses
Finite(v) == [ok |-> TRUE, finite |-> TRUE, val |-> v]

NonFinite == [ok |-> TRUE, finite |-> FALSE, val |-> 0]

NoFloat == [ok |-> FALSE, finite |-> FALSE, val |-> 0]

\* the number m * 10^e: an integer when it is one, else mantissa and exponent
RECURSIVE Decimal(_, _)
Decimal(m, e) ==
  IF m = 0 THEN 0
  ELSE IF e >= 0 THEN m * (10 ^ e)
  ELSE IF m % 10 = 0 THEN Decimal(m \div 10, e + 1)
  ELSE [m |-> m, e |-> e]

\* the digits after the point of a mantissa
FractionLen(mant) ==
  IF Index(mant, <<".">>) = -1 THEN 0 ELSE Len(mant) - Index(mant, <<".">>) - 1

\* the value of a mantissa with the decimal exponent exp
MantissaValue(mant, exp) ==
  Decimal(DigitsToNat(SelectSeq(mant, IsDigit)), exp - FractionLen(mant))

\* the value of an unsigned lowercased literal ParseFloat accepts, e the
\* position of its exponent mark
UnsignedFloat(body, e) ==
  IF body \in {<<"i", "n", "f">>, <<"i", "n", "f", "i", "n", "i", "t", "y">>,
               <<"n", "a", "n">>}
  THEN NonFinite
  ELSE IF e = -1 THEN Finite(MantissaValue(body, 0))
  ELSE Finite(MantissaValue(SubSeq(body, 1, e),
                            ParseInt(SubSeq(body, e + 2, Len(body))).val))

\* v negated
Negated(f) ==
  IF ~f.finite THEN f
  ELSE IF f.val \in Int THEN Finite(0 - f.val)
  ELSE Finite([m |-> 0 - f.val.m, e |-> f.val.e])

\* strconv.ParseFloat(s, 64): the value
SignedFloat(s, body) ==
  IF s # <<>> /\ Head(s) = "-" THEN Negated(UnsignedFloat(body, Index(body, <<"e">>)))
  ELSE UnsignedFloat(body, Index(body, <<"e">>))

ParseFloat(s) ==
  IF ~ParseFloatOK(s) THEN NoFloat
  ELSE SignedFloat(s, ToLower(IF s # <<>> /\ Head(s) \in {"+", "-"} THEN Tail(s) ELSE s))

\* float64(intVal) of the integer literal numStr
IntFloat(p) == IF p.ok THEN Finite(p.val) ELSE NoFloat

\* the conversion of a field value to float64 in the three ingest paths
FloatValue(value) ==
  IF HasPrefix(value, <<"\"">>) /\ HasSuffix(value, <<"\"">>) THEN Finite(1)
  ELSE IF HasSuffix(value, <<"i">>)
  THEN IntFloat(ParseInt(Slice(value, 0, Len(value) - 1)))
  ELSE IF ToLower(value) = <<"t", "r", "u", "e">> THEN Finite(1)
  ELSE IF ToLower(value) = <<"f", "a", "l", "s", "e">> THEN Finite(0)
  ELSE ParseFloat(value)

\* the ingest paths
V2 == "v2"

V1 == "v1"

Udp == "udp"

\* how a batch ends: the HTTP status (0 on the UDP path, which answers
\* nothing), whether Parse panicked, and the rows saved
Outcome(status, panic, rows) == [status |-> status, panic |-> panic, rows |-> rows]

\* the loop over proto.Fields in the order iter: status 0 when the loop ran
\* to its end
RECURSIVE SaveFields(_, _, _, _)
FieldSaved(r, iter, path, rows, fv) ==
  IF ~fv.ok
  THEN IF path = Udp THEN SaveFields(r, Tail(iter), path, rows)
       ELSE Outcome(400, FALSE, rows)
  ELSE IF ~fv.finite
  THEN IF path = Udp THEN SaveFields(r, Tail(iter), path, rows)
       ELSE Outcome(500, FALSE, rows)
  ELSE SaveFields(r, Tail(iter), path,
         Append(rows, SaveRow(r.Measurement, Head(iter), fv.val, r.Tags, r.Timestamp)))

SaveFields(r, iter, path, rows) ==
  IF iter = <<>> THEN Outcome(0, FALSE, rows)
  ELSE FieldSaved(r, iter, path, rows, FloatValue(r.Fields[Head(iter)]))

\* the loop over the lines of the batch, rows the rows saved so far
RECURSIVE LinesOutcomes(_, _, _)
AfterFields(o, rest, path) ==
  IF o.status # 0 THEN {o} ELSE LinesOutcomes(rest, path, o.rows)

AfterParse_Mut(p, rest, path, rows) ==
  IF p.status = "panic"
  THEN {Outcome(IF path = Udp THEN 0 ELSE 500, TRUE, rows)}
  ELSE IF p.status = "err"
  THEN IF path = Udp THEN LinesOutcomes(rest, path, rows)
       ELSE {Outcome(400, FALSE, <<>>)}
  ELSE UNION { AfterFields(SaveFields(p.lp, iter, path, rows), rest, path) :
                 iter \in Perms(DOMAIN p.lp.Fields) }

AfterParse(p, rest, path, rows) ==
  IF p.status = "panic"
  THEN {Outcome(IF path = Udp THEN 0 ELSE 500, TRUE, rows)}
  ELSE IF p.status = "err"
  THEN IF path = Udp THEN LinesOutcomes(rest, path, rows)
       ELSE {Outcome(400, FALSE, rows)}
  ELSE UNION { AfterFields(SaveFields(p.lp, iter, path, rows), rest, path) :
                 iter \in Perms(DOMAIN p.lp.Fields) }

OneLine(trimmed, rest, path, rows) ==
  IF trimmed = <<>> THEN LinesOutcomes(rest, path, rows)
  ELSE AfterParse(Parse(trimmed), rest, path, rows)

LinesOutcomes(lines, path, rows) ==
  IF lines = <<>> THEN {Outcome(IF path = Udp THEN 0 ELSE 204, FALSE, rows)}
  ELSE OneLine(TrimSpace(Head(lines)), Tail(lines), path, rows)

\* the outcomes of a batch with the text body: the rows it appends to the
\* store, one outcome for each order of the ranges over proto.Fields
BodyOutcomes(body, path) ==
  LinesOutcomes(Split(TrimSpace(body), <<"\n">>), path, <<>>)

\* handleWrite and handleV1Write: org and bucket, or db, are required
HttpOutcomes(body, path, hasParams) ==
  IF ~hasParams THEN {Outcome(400, FALSE, <<>>)} ELSE BodyOutcomes(body, path)

----------------------------------------------------------------------------
(* The lines given to Parse.                                               *)

\* the most tag pairs and field pairs of a generated line
MaxTags == 2

MaxFields == 2

\* the sequences of at most n elements of pool
SeqsUpTo(pool, n) == UNION { [1..k -> pool] : k \in 0..n }

\* the elements of ss, each preceded by sep
RECURSIVE Prefixed(_, _)
Prefixed(ss, sep) ==
  IF ss = <<>> THEN <<>> ELSE sep \o Head(ss) \o Prefixed(Tail(ss), sep)

\* strings.Join(ss, sep)
Join(ss, sep) == IF ss = <<>> THEN <<>> ELSE Head(ss) \o Prefixed(Tail(ss), sep)

MeasurementPool ==
  { <<"m">>,
    <<"M", "_", "1">>,
    <<"\"", "m", "\"">>,
    <<"\"", "a", ",", "b", "\"">>,
    <<"\"", "a", "\\", "\"", "b", "\"">>,
    <<"\"", "a", ",", "\\", "\"", "b", "\"">>,
    <<"\"", "m">>,
    <<"\"", "m", "\"", "x">>,
    <<>> }

TagPairPool ==
  { <<"k", "=", "v">>,
    <<"k", "=", "w">>,
    <<"j", "=", "w">>,
    <<"k", "=", "\"", "v", "\"">>,
    <<"k", "=", "\"", "\"", "v", "\"", "\"">>,
    <<"k", "=", "\"">>,
    <<"k", "=", "\"", "\"">>,
    <<"k", "=", "a", "\"", "b">>,
    <<"k", "=", "\"", "a", " ", "b", "\"">>,
    <<"k", "=", "\t", "v">>,
    <<"k", "=">>,
    <<"=", "v">>,
    <<"k">> }

FieldLiterals ==
  { <<"1">>, <<"4", "2">>, <<"1", ".", "5">>, <<".">>, <<"1", "e", "3">>,
    <<"+", "1">>, <<"i", "n", "f">>, <<"x">>, <<>>,
    <<"1", "i">>, <<"-", "1", "i">>, <<"i">>, <<"1", ".", "5", "i">>,
    <<"\"", "s", "\"">>, <<"\"", "1", "i", "\"">>, <<"\"", "\"">>,
    <<"\"">>, <<"\"", "a">>, <<"a", "\"">>, <<"\"", "1", "i">>,
    <<"t", "r", "u", "e">>, <<"T", "R", "U", "E">>,
    <<"F", "a", "l", "s", "e">>, <<"t">>,
    <<"\t", "1">> }

FieldPairPool ==
  { <<"f", "=">> \o v : v \in FieldLiterals }
  \cup { <<"g", "=", "2">>, <<"=", "1">>, <<"f">> }

TimestampPool ==
  { <<>>, <<" ", "5">>, <<" ", "1", "2", "0">>, <<" ", "0">>,
    <<" ", "-", "5">>, <<" ", "+", "5">>, <<" ", "0", "0", "7">>,
    <<" ", "x">>, <<" ", " ", "5">>, <<" ", "5", " ">> }

\* lines that vary the tags
TagLines ==
  { m \o Prefixed(ts, <<",">>) \o <<" ", "f", "=", "1">> \o t :
      m \in { <<"m">>, <<"\"", "a", ",", "b", "\"">> },
      ts \in SeqsUpTo(TagPairPool, MaxTags),
      t \in { <<>>, <<" ", "5">> } }

\* lines that vary the fields
FieldLines ==
  { <<"m">> \o <<" ">> \o Join(fs, <<",">>) \o t :
      fs \in SeqsUpTo(FieldPairPool, MaxFields),
      t \in { <<>>, <<" ", "5">> } }

\* lines that vary the measurement and the timestamp
MeasurementLines ==
  { m \o tg \o <<" ", "f", "=", "1">> \o t :
      m \in MeasurementPool,
      tg \in { <<>>, <<",">>, <<",", "k", "=", "v">> },
      t \in TimestampPool }

\* lines without a fields segment, and padded lines
OtherLines ==
  { <<>>, <<" ">>, <<"m">>, <<"m", " ">>, <<"m", " ", " ", "f", "=", "1">>,
    <<"\t", "m", " ", "f", "=", "1", "\t">>,
    <<"m", ",", "k", "=", "v">> }

Lines == TagLines \cup FieldLines \cup MeasurementLines \cup OtherLines

----------------------------------------------------------------------------
(* The queries given to handleV1Query and the points saved.                *)

\* the most minutes N of a generated group by time(Nm)
MaxMinutes == 2

\* the most rows saved
MaxPoints == 4

\* time.Now().UnixNano() when the handler runs
StartClock == 200 * NsPerSec

Value == <<"v", "a", "l", "u", "e">>

Cpu == <<"c", "p", "u">>

QuoteIf(quoted, s) == IF quoted THEN <<"\"">> \o s \o <<"\"">> ELSE s

\* a time literal: the number, with the suffix ms when ms
Literal(t) == FormatInt(t.val) \o (IF t.ms THEN Ms ELSE <<>>)

\* the nanoseconds the literal stands for
Nanoseconds(t) == IF t.ms THEN t.val * NsPerMs ELSE t.val

\* the text of the query with the parts q, keywords in upper case when upper
QueryText(q) ==
  LET Kw(w) == IF q.upper THEN ToUpper(w) ELSE w
      f     == QuoteIf(q.fquoted, q.field)
  IN Kw(Select) \o <<" ">>
     \o (IF q.agg # <<>> THEN Kw(q.agg) \o <<"(">> \o f \o <<")">> ELSE f)
     \o <<" ">> \o Kw(From) \o <<" ">> \o QuoteIf(q.mquoted, q.meas)
     \o (IF q.where = "none" THEN <<>>
         ELSE <<" ">> \o Kw(Where) \o <<" ">> \o Kw(Time) \o <<" ">>)
     \o (IF q.where \in {"both", "ge"}
         THEN <<">", "=", " ">> \o Literal(q.t1) ELSE <<>>)
     \o (IF q.where = "both"
         THEN <<" ">> \o Kw(And) \o <<" ">> \o Kw(Time) \o <<" ">> ELSE <<>>)
     \o (IF q.where \in {"both", "le"}
         THEN <<"<", "=", " ">> \o Literal(q.t2) ELSE <<>>)
     \o (IF q.group = "none" THEN <<>>
         ELSE <<" ">> \o Kw(GroupBy) \o <<" ">>)
     \o (IF q.group = "minutes"
         THEN Kw(Time) \o <<"(">> \o FormatInt(q.n) \o <<"m", ")">>
         ELSE IF q.group = "seconds"
         THEN Kw(Time) \o <<"(">> \o FormatInt(q.n) \o <<"s", ")">>
         ELSE IF q.group = "tag" THEN <<"h", "o", "s", "t">>
         ELSE IF q.group = "spaced"
         THEN Kw(Time) \o <<" ", "(">> \o FormatInt(q.n) \o <<"m", ")">>
         ELSE <<>>)

\* the SELECT queries whose interpretation is examined
SelectQueries ==
  [kind    : {"select"},
   db      : {<<"m", "y", "d", "b">>},
   upper   : BOOLEAN,
   agg     : {<<>>} \cup { AggFuncs[i] : i \in 1..Len(AggFuncs) },
   field   : {Value, <<"V", "a", "l", "u", "e">>},
   fquoted : BOOLEAN,
   meas    : {Cpu, <<"C", "P", "U">>},
   mquoted : {TRUE},
   where   : {"both"},
   t1      : {[val |-> 1000, ms |-> TRUE], [val |-> 1000 * NsPerMs, ms |-> FALSE],
              [val |-> -100000, ms |-> TRUE]},
   t2      : {[val |-> 2000, ms |-> TRUE], [val |-> 2000 * NsPerMs, ms |-> FALSE]},
   group   : {"minutes"},
   n       : 1..MaxMinutes]
  \cup
  [kind    : {"select"},
   db      : {<<"m", "y", "d", "b">>, <<>>},
   upper   : {FALSE},
   agg     : {<<>>, Mean},
   field   : {Value, <<"*">>},
   fquoted : {FALSE},
   meas    : {Cpu},
   mquoted : BOOLEAN,
   where   : {"none", "both", "ge", "le"},
   t1      : {[val |-> 1000, ms |-> TRUE]},
   t2      : {[val |-> 2000, ms |-> TRUE], [val |-> 2000 * NsPerMs, ms |-> FALSE]},
   group   : {"none", "minutes", "seconds", "tag", "spaced"},
   n       : {1}]

\* the queries that read the points saved
AggQueries ==
  [kind    : {"select"},
   db      : {<<"m", "y", "d", "b">>},
   upper   : {FALSE},
   agg     : {<<>>} \cup { AggFuncs[i] : i \in 1..Len(AggFuncs) },
   field   : {Value},
   fquoted : {TRUE},
   meas    : {Cpu},
   mquoted : {TRUE},
   where   : {"both"},
   t1      : {[val |-> -100000, ms |-> TRUE]},
   t2      : {[val |-> 100000, ms |-> TRUE]},
   group   : {"minutes"},
   n       : {1}]
  \cup
  [kind    : {"select"},
   db      : {<<"m", "y", "d", "b">>},
   upper   : {FALSE},
   agg     : {<<>>},
   field   : {Value},
   fquoted : {FALSE},
   meas    : {Cpu},
   mquoted : {FALSE},
   where   : {"both"},
   t1      : {[val |-> -100000 * NsPerMs, ms |-> FALSE]},
   t2      : {[val |-> 100000 * NsPerMs, ms |-> FALSE]},
   group   : {"none"},
   n       : {1}]

\* the mean queries with group by time(Nm) for N negative, zero and
\* positive
WidthQueries ==
  [kind    : {"select"},
   db      : {<<"m", "y", "d", "b">>},
   upper   : {FALSE},
   agg     : {Mean},
   field   : {Value},
   fquoted : {TRUE},
   meas    : {Cpu},
   mquoted : {TRUE},
   where   : {"both"},
   t1      : {[val |-> -100000, ms |-> TRUE]},
   t2      : {[val |-> 100000, ms |-> TRUE]},
   group   : {"minutes"},
   n       : {-1, 0, 1}]

\* a query that is not a SELECT built from parts
Other(words) ==
  [kind |-> "other", db |-> <<"m", "y", "d", "b">>, upper |-> FALSE,
   agg |-> <<>>, field |-> words, fquoted |-> FALSE, meas |-> <<>>,
   mquoted |-> FALSE, where |-> "none", t1 |-> [val |-> 0, ms |-> FALSE],
   t2 |-> [val |-> 0, ms |-> FALSE], group |-> "none", n |-> 0]

OtherQueries ==
  { Other(<<>>),
    Other(Show \o <<" ">> \o Databases),
    Other(ToUpper(Show \o <<" ">> \o Measurements)),
    Other(Create \o <<" ">> \o Database \o <<" ">> \o <<"x">>),
    Other(Create \o <<" ">> \o Database),
    Other(Use \o <<" ">> \o <<"x">>),
    Other(Use),
    Other(<<"d", "r", "o", "p">>) }

\* SELECT queries with a time bound whose literal is not an integer: the
\* >= bound or the <= bound, alone or with the other, and the query of the
\* README with now() - 1h
BadStartBoth ==
  <<"s", "e", "l", "e", "c", "t", " ", "v", "a", "l", "u", "e", " ", "f",
    "r", "o", "m", " ", "c", "p", "u", " ", "w", "h", "e", "r", "e", " ",
    "t", "i", "m", "e", " ", ">", "=", " ", "a", "b", "c", " ", "a", "n",
    "d", " ", "t", "i", "m", "e", " ", "<", "=", " ", "2", "0", "0", "0",
    "m", "s">>

BadStartMs ==
  <<"s", "e", "l", "e", "c", "t", " ", "v", "a", "l", "u", "e", " ", "f",
    "r", "o", "m", " ", "c", "p", "u", " ", "w", "h", "e", "r", "e", " ",
    "t", "i", "m", "e", " ", ">", "=", " ", "1", "x", "5", "m", "s", " ",
    "a", "n", "d", " ", "t", "i", "m", "e", " ", "<", "=", " ", "2", "0",
    "0", "0", "m", "s">>

BadEndBoth ==
  <<"s", "e", "l", "e", "c", "t", " ", "v", "a", "l", "u", "e", " ", "f",
    "r", "o", "m", " ", "c", "p", "u", " ", "w", "h", "e", "r", "e", " ",
    "t", "i", "m", "e", " ", ">", "=", " ", "1", "0", "0", "0", "m", "s",
    " ", "a", "n", "d", " ", "t", "i", "m", "e", " ", "<", "=", " ", "a",
    "b", "c">>

BadEndOnly ==
  <<"s", "e", "l", "e", "c", "t", " ", "v", "a", "l", "u", "e", " ", "f",
    "r", "o", "m", " ", "c", "p", "u", " ", "w", "h", "e", "r", "e", " ",
    "t", "i", "m", "e", " ", "<", "=", " ", "1", ".", "5", "m", "s">>

BadStartOnly ==
  <<"s", "e", "l", "e", "c", "t", " ", "v", "a", "l", "u", "e", " ", "f",
    "r", "o", "m", " ", "c", "p", "u", " ", "w", "h", "e", "r", "e", " ",
    "t", "i", "m", "e", " ", ">", "=", " ", "a", "b", "c">>

BadStartNow ==
  <<"s", "e", "l", "e", "c", "t", " ", "m", "e", "a", "n", "(", "\"", "v",
    "a", "l", "u", "e", "\"", ")", " ", "f", "r", "o", "m", " ", "\"", "c",
    "p", "u", "\"", " ", "w", "h", "e", "r", "e", " ", "t", "i", "m", "e",
    " ", ">", "=", " ", "n", "o", "w", "(", ")", " ", "-", " ", "1", "h",
    " ", "g", "r", "o", "u", "p", " ", "b", "y", " ", "t", "i", "m", "e",
    "(", "5", "m", ")", " ", "f", "i", "l", "l", "(", "n", "u", "l", "l",
    ")">>

BadTimeQueries ==
  { Other(q) : q \in {BadStartBoth, BadStartMs, BadEndBoth,
                        BadEndOnly, BadStartOnly, BadStartNow} }

\* the text sent for q
TextOf(q) == IF q.kind = "select" THEN QueryText(q) ELSE q.field

\* the rows saved: measurement, field, value, timestamp
RowPool ==
  { SaveRow(Cpu, Value, 1, EmptyMap, 0 - 30 * NsPerSec),
    SaveRow(Cpu, Value, 1, EmptyMap, 10 * NsPerSec),
    SaveRow(Cpu, Value, 4, EmptyMap, 30 * NsPerSec),
    SaveRow(Cpu, Value, 4, EmptyMap, 70 * NsPerSec),
    SaveRow(Cpu, Value, 1, EmptyMap, 70 * NsPerSec),
    SaveRow(Cpu, <<"o", "t", "h", "e", "r">>, 7, EmptyMap, 10 * NsPerSec) }

NoQuery == Other(<<"n", "o", "n", "e">>)

NoResponse == Response(0, NoDesc, <<>>, <<>>, <<>>)

\* GetMeasurementRange has not been called
NoRead ==
  [called |-> FALSE, measurement |-> <<>>, start |-> 0, end |-> 0,
   points |-> <<>>, err |-> ""]

\* a write request: the path, the body, and whether the query parameters
\* the path requires are there (org and bucket, or db)
WriteRequest(path, body, hasParams) ==
  [pending |-> TRUE, path |-> path, body |-> body, hasParams |-> hasParams]

NoWrite == [pending |-> FALSE, path |-> "", body |-> <<>>, hasParams |-> FALSE]

\* no write request has been handled
NoWriteResponse == [status |-> 0, panic |-> FALSE, handled |-> FALSE]

\* sync.RWMutex: the goroutine that holds the write lock (0: none) and the
\* goroutines that hold a read lock
Unlocked == [writer |-> 0, readers |-> {}]

\* no goroutine uses the store concurrently
NoProcs == << >>

\* the UDP server after a successful Start, the context not cancelled: the
\* receive loop is in conn.ReadFromUDP
Receiving ==
  [isRunning |-> TRUE, conn |-> "open", loop |-> "reading", cancelled |-> FALSE,
   stop |-> "idle", start |-> "started"]

\* the results of the earlier calls of Parse and of handleV1Query with the
\* same input, none made yet
NoCalls ==
  [parsed |-> FALSE, rec |-> <<>>, asked |-> FALSE, resp |-> NoResponse, at |-> 0]

\* the caller and ingest side at the start, the write request req sent
CallerAt(req) ==
  /\ read = NoRead
  /\ wreq = req
  /\ wresp = NoWriteResponse
  /\ before = 0
  /\ writes = 0
  /\ alive = TRUE
  /\ mu = Unlocked
  /\ procs = NoProcs
  /\ udp = Receiving
  /\ prev = NoCalls

----------------------------------------------------------------------------
(* Parse, String and Parse again, on one line.                             *)

NoResult == [status |-> "none", err |-> "", lp |-> New(<<>>)]

Init ==
  /\ line \in Lines
  /\ pc = "start"
  /\ lp = NoResult
  /\ text = <<>>
  /\ lp2 = NoResult
  /\ store = <<>>
  /\ clock = StartClock
  /\ query = NoQuery
  /\ resp = NoResponse
  /\ CallerAt(NoWrite)

\* proto, err := Parse(line)
DoParse ==
  /\ pc = "start"
  /\ lp' = Parse(line)
  /\ pc' = "parsed"
  /\ UNCHANGED <<line, text, lp2>>
  /\ UNCHANGED serverVars
  /\ UNCHANGED callerVars
  /\ UNCHANGED concVars
  /\ UNCHANGED udp

\* proto.String() on the record Parse returned
DoString ==
  /\ pc = "parsed"
  /\ lp.status = "ok"
  /\ \E iter \in FieldIterOrders(lp.lp) : text' = String(lp.lp, iter)
  /\ pc' = "printed"
  /\ UNCHANGED <<line, lp, lp2>>
  /\ UNCHANGED serverVars
  /\ UNCHANGED callerVars
  /\ UNCHANGED concVars
  /\ UNCHANGED udp

\* Parse of the text String wrote
DoReparse ==
  /\ pc = "printed"
  /\ lp2' = Parse(text)
  /\ pc' = "done"
  /\ UNCHANGED <<line, lp, text>>
  /\ UNCHANGED serverVars
  /\ UNCHANGED callerVars
  /\ UNCHANGED concVars
  /\ UNCHANGED udp

Next == DoParse \/ DoString \/ DoReparse

Spec == Init /\ [][Next]_vars

----------------------------------------------------------------------------
(* The text of a line, cut at its separators, for stating the properties.  *)

QuoteCh == <<"\"">>

\* the line once Parse has trimmed it, cut at the first space
LineParts(l) == SplitN2(TrimSpace(l), <<" ">>)

\* the text after the first comma of the first part
RawTagText(l) ==
  LET c == SplitN2(LineParts(l)[1], <<",">>) IN IF Len(c) > 1 THEN c[2] ELSE <<>>

\* the key=value texts of the fields segment
RawFieldPairs(l) == Split(SplitN2(LineParts(l)[2], <<" ">>)[1], <<",">>)

\* the texts after the fields segment, none or one
RawTimestamp(l) == Tail(SplitN2(LineParts(l)[2], <<" ">>))

RawKey(pair) == SplitN2(pair, <<"=">>)[1]

RawValue(pair) == SplitN2(pair, <<"=">>)[2]

NoDuplicates(s) == \A i, j \in 1..Len(s) : s[i] = s[j] => i = j

\* starts and ends with a double quote, and has room for both
IsQuoted(v) == Len(v) >= 2 /\ v[1] = "\"" /\ v[Len(v)] = "\""

BooleanText == { <<"t", "r", "u", "e">>, <<"f", "a", "l", "s", "e">> }

----------------------------------------------------------------------------
(* C1 Round trip: for every line Parse accepts, Parse of String of the     *)
(* record succeeds and yields a record with the same measurement, tag map, *)
(* field map and timestamp.                                                *)
C1_RoundTrip ==
  pc = "done" =>
    /\ lp2.status = "ok"
    /\ lp2.lp.Measurement = lp.lp.Measurement
    /\ lp2.lp.Tags = lp.lp.Tags
    /\ lp2.lp.Fields = lp.lp.Fields
    /\ lp2.lp.Timestamp = lp.lp.Timestamp

(* C2 No panic: for every input, Parse returns a record or an error value  *)
(* and never ends in a runtime panic.                                      *)
C2_NeverPanics == lp.status # "panic" /\ lp2.status # "panic"

\* the lines with the one tag k="a b", a value in quotes with a space in it
QuotedSpaceLines ==
  { <<"m", ",", "k", "=", "\"", "a", " ", "b", "\"", " ", "f", "=", "1">> \o t :
      t \in { <<>>, <<" ", "5">> } }

(* C3 Quoted tag value: Parse of a line whose tag value is in double       *)
(* quotes and holds a space succeeds, the tag stored without the quotes    *)
(* and with the space, the fields read from after the closing quote.       *)
C3_QuotedTagValueWithSpace ==
  pc # "start" /\ line \in QuotedSpaceLines =>
    /\ lp.status = "ok"
    /\ lp.lp.Tags = MapPut(EmptyMap, <<"k">>, <<"a", " ", "b">>)
    /\ lp.lp.Fields = MapPut(EmptyMap, <<"f">>, <<"1">>)

\* the type the stated order gives the literal v, "reject" when it has none
ExpectedType(v) ==
  IF IsQuoted(v) THEN "string"
  ELSE IF v # <<>> /\ v[Len(v)] = "i"
  THEN (IF ParseInt(SubSeq(v, 1, Len(v) - 1)).ok THEN "integer" ELSE "reject")
  ELSE IF ToLower(v) \in BooleanText THEN "boolean"
  ELSE IF ParseFloatOK(v) THEN "float"
  ELSE "reject"

\* the text to be stored for an accepted literal v
ExpectedStored(v) == IF ExpectedType(v) = "boolean" THEN ToLower(v) ELSE v

\* the fields segment of l is well formed under the stated order
FieldsAcceptable(l) ==
  \A i \in 1..Len(RawFieldPairs(l)) :
    LET pair == RawFieldPairs(l)[i]
    IN /\ Contains(pair, <<"=">>)
       /\ TrimSpace(RawKey(pair)) # <<>>
       /\ ExpectedType(TrimSpace(RawValue(pair))) # "reject"

\* the line has the bare measurement m, no tags and a sound timestamp, so
\* that its fields alone decide what Parse returns
PlainHead(l) ==
  /\ Len(LineParts(l)) = 2
  /\ LineParts(l)[1] = <<"m">>
  /\ \A i \in 1..Len(RawTimestamp(l)) : ParseInt(RawTimestamp(l)[i]).ok

(* C4 Field typing: a trimmed literal is a string when it is wrapped in    *)
(* double quotes (length >= 2), else an integer when it ends with i (and   *)
(* the rest is a base-10 integer), else a boolean when it is true or false *)
(* in any case, else a float when it parses as one; every other literal is *)
(* rejected; the stored text is the literal, lowercased for booleans.      *)
C4_FieldTyping ==
  pc # "start" /\ PlainHead(line) =>
    IF FieldsAcceptable(line)
    THEN /\ lp.status = "ok"
         /\ \A i \in 1..Len(RawFieldPairs(line)) :
              LET pairs == RawFieldPairs(line)
                  key   == TrimSpace(RawKey(pairs[i]))
                  v     == TrimSpace(RawValue(pairs[i]))
                  last  == \A j \in (i + 1)..Len(pairs) :
                             TrimSpace(RawKey(pairs[j])) # key
              IN /\ FieldValue(v).type = ExpectedType(v)
                 /\ key \in DOMAIN lp.lp.Fields
                 /\ last => lp.lp.Fields[key] = ExpectedStored(v)
    ELSE lp.status = "err"

\* a line of every type, the boolean in upper case, is accepted
C4_Witness ==
  /\ pc = "parsed"
  /\ lp.status = "ok"
  /\ line = <<"m", " ", "f", "=", "T", "R", "U", "E", ",", "g", "=", "2">>
  /\ lp.lp.Fields[<<"f">>] = <<"t", "r", "u", "e">>
  /\ lp.lp.Fields[<<"g">>] = <<"2">>

\* canonical form as the claim words it: bare measurement, distinct tag
\* keys, tag values quoted exactly when they hold a space, no padding
\* white space, lowercase booleans, timestamp absent or > 0
CanonicalAsClaimed(l, r) ==
  /\ l = TrimSpace(l)
  /\ l[1] # "\""
  /\ NoDuplicates(r.tagOrder)
  /\ RawTagText(l) # <<>> =>
       \A i \in 1..Len(Split(RawTagText(l), <<",">>)) :
         LET pair == Split(RawTagText(l), <<",">>)[i]
         IN /\ RawKey(pair) = TrimSpace(RawKey(pair))
            /\ RawValue(pair) = TrimSpace(RawValue(pair))
            /\ IsQuoted(RawValue(pair)) <=> Contains(RawValue(pair), <<" ">>)
  /\ \A i \in 1..Len(RawFieldPairs(l)) :
       LET pair == RawFieldPairs(l)[i]
       IN /\ RawKey(pair) = TrimSpace(RawKey(pair))
          /\ RawValue(pair) = TrimSpace(RawValue(pair))
          /\ ToLower(RawValue(pair)) \in BooleanText
               => RawValue(pair) = ToLower(RawValue(pair))
  /\ RawTimestamp(l) = <<>> \/ r.Timestamp > 0

\* canonical form: as claimed, and also distinct field keys, no comma
\* without a tag after the measurement, and the timestamp written as
\* FormatInt writes it (no sign, no leading zero)
Canonical(l, r) ==
  /\ CanonicalAsClaimed(l, r)
  /\ NoDuplicates(r.fieldOrder)
  /\ Contains(LineParts(l)[1], <<",">>) => RawTagText(l) # <<>>
  /\ RawTimestamp(l) # <<>> => RawTimestamp(l)[1] = FormatInt(r.Timestamp)

(* C5 as claimed: for every accepted line in canonical form as the claim   *)
(* words it, String(Parse(L)) = L.                                         *)
C5_AsClaimed ==
  pc \in {"printed", "done"} /\ CanonicalAsClaimed(line, lp.lp) => text = line

(* C5 Byte-identical serialisation: for every accepted line in canonical   *)
(* form (bare measurement, distinct tag keys and distinct field keys, a    *)
(* tag after every comma, unquoted tag values, no padding white space,     *)
(* lowercase booleans, timestamp absent or a positive decimal without sign *)
(* or leading zero), String(Parse(L)) = L, tags and fields in the order    *)
(* of L.                                                                   *)
C5_CanonicalIdentity ==
  pc \in {"printed", "done"} /\ Canonical(line, lp.lp) => text = line

\* a canonical line whose tags are not in sorted order comes back as written
C5_Witness ==
  /\ pc = "printed"
  /\ Canonical(line, lp.lp)
  /\ lp.lp.tagOrder = << <<"k">>, <<"j">> >>
  /\ RawTimestamp(line) # <<>>
  /\ text = line

----------------------------------------------------------------------------
(* The server: the store and the v1 query handler.                         *)

\* the codec at rest
CodecIdle ==
  /\ line = <<>>
  /\ pc = "start"
  /\ lp = NoResult
  /\ text = <<>>
  /\ lp2 = NoResult

\* the request q has arrived; nothing is stored and nothing is answered
InitServer(q) ==
  /\ CodecIdle
  /\ store = <<>>
  /\ clock = StartClock
  /\ query = q
  /\ resp = NoResponse
  /\ CallerAt(NoWrite)

\* Manager.SaveMeasurement: INSERT INTO points; rows are saved until the
\* query is answered or the range is read
SaveMeasurement(row) ==
  /\ alive
  /\ resp = NoResponse
  /\ ~read.called
  /\ Len(store) < MaxPoints
  /\ store' = Append(store, row)
  /\ UNCHANGED <<clock, query, resp>>
  /\ UNCHANGED codecVars
  /\ UNCHANGED concVars
  /\ UNCHANGED udp
  /\ UNCHANGED callerVars

\* handleV1Query on the request
HandleV1Query ==
  /\ alive
  /\ resp = NoResponse
  /\ resp' \in V1QueryResponses(TextOf(query), query.db, store, clock)
  /\ UNCHANGED <<store, clock, query>>
  /\ UNCHANGED codecVars
  /\ UNCHANGED concVars
  /\ UNCHANGED udp
  /\ UNCHANGED callerVars

InitQuery ==
  \E q \in SelectQueries \cup OtherQueries \cup BadTimeQueries : InitServer(q)

NextQuery == HandleV1Query

\* the handler on every query, the store empty
SpecQuery == InitQuery /\ [][NextQuery]_vars

InitAgg == \E q \in AggQueries : InitServer(q)

Save == \E row \in RowPool : SaveMeasurement(row)

NextAgg == Save \/ HandleV1Query

\* points saved and read back by mean, sum, count, min, max and plain queries
SpecAgg == InitAgg /\ [][NextAgg]_vars

InitWidth == \E q \in WidthQueries : InitServer(q)

\* points saved and read back by mean queries of every bucket width
SpecWidth == InitWidth /\ [][NextAgg]_vars

----------------------------------------------------------------------------
(* The arithmetic of handleV1Query on int64. An int64 is a word of eight   *)
(* limbs of eight bits, the least significant first, in two's complement;  *)
(* products are taken modulo 2^64 as Go takes them.                        *)

Limb == 256

\* the int64 of a number from 0 to Limb - 1
Word64(n) == <<n, 0, 0, 0, 0, 0, 0, 0>>

\* w * k + c limb by limb; the carry out of the last limb is dropped
RECURSIVE MulAddLimbs(_, _, _)
MulAddLimbs(w, k, c) ==
  IF w = <<>> THEN <<>>
  ELSE <<(Head(w) * k + c) % Limb>>
       \o MulAddLimbs(Tail(w), k, (Head(w) * k + c) \div Limb)

\* w * k on int64
Mul64(w, k) == MulAddLimbs(w, k, 0)

\* -w on int64
Neg64(w) == MulAddLimbs([i \in 1..Len(w) |-> Limb - 1 - w[i]], 1, 1)

\* the magnitude of a decimal literal of at most 19 digits, on nine limbs
RECURSIVE DigitsToLimbs(_)
DigitsToLimbs(s) ==
  IF s = <<>> THEN <<0, 0, 0, 0, 0, 0, 0, 0, 0>>
  ELSE MulAddLimbs(DigitsToLimbs(SubSeq(s, 1, Len(s) - 1)), 10, DigitVal(s[Len(s)]))

\* the magnitude is at most 2^63 - 1, or 2^63 for a negative literal
InRange64(neg, mag) ==
  /\ mag[9] = 0
  /\ \/ mag[8] < Limb \div 2
     \/ neg /\ mag = <<0, 0, 0, 0, 0, 0, 0, Limb \div 2, 0>>

\* the int64 of the sign and the magnitude
Signed64(neg, mag) ==
  IF ~InRange64(neg, mag) THEN [ok |-> FALSE, val |-> Word64(0)]
  ELSE [ok |-> TRUE,
        val |-> IF neg THEN Neg64(SubSeq(mag, 1, 8)) ELSE SubSeq(mag, 1, 8)]

\* the digits after the sign
Unsigned64(neg, body) ==
  IF ~AllDigits(body) \/ Len(StripZeros(body)) > 19
  THEN [ok |-> FALSE, val |-> Word64(0)]
  ELSE Signed64(neg, DigitsToLimbs(StripZeros(body)))

\* strconv.ParseInt(s, 10, 64) with the whole range of int64
ParseInt64(s) ==
  IF s # <<>> /\ Head(s) \in {"+", "-"}
  THEN Unsigned64(Head(s) = "-", Tail(s))
  ELSE Unsigned64(FALSE, s)

\* startTime *= 1000000 and endTime *= 1000000
MsToNs(w) == Mul64(w, 1000000)

\* mins * 60 * 1e9
MinutesToNs(w) == Mul64(Mul64(Mul64(w, 60), 1000), 1000000)

\* groupByInterval: the default of 5 minutes unless ParseInt takes N
WideInterval(mins) ==
  IF mins.ok THEN MinutesToNs(mins.val) ELSE MinutesToNs(Word64(5))

\* the answer to the mean query with the bounds and the minutes parsed, the
\* store empty
WideAnswer(sb, eb, mins) ==
  IF ~sb.ok THEN Failure(400, "invalid start time format")
  ELSE IF ~eb.ok THEN Failure(400, "invalid end time format")
  ELSE Response(200,
                [measurement |-> Cpu, aggregation |-> Mean, field |-> Value,
                 startTime |-> MsToNs(sb.val), endTime |-> MsToNs(eb.val),
                 groupByInterval |-> WideInterval(mins)],
                Cpu, <<Time, Mean>>, <<>>)

\* literals of time bounds: small, the largest whose milliseconds fit int64,
\* the next one, the literal of the test of the server, a negative one, and
\* one out of the range of int64
WideBounds ==
  { <<"1", "0", "0", "0">>,
    <<"1", "5", "5", "6", "8", "1", "3", "5", "6", "1", "0", "9", "8">>,
    <<"9", "2", "2", "3", "3", "7", "2", "0", "3", "6", "8", "5", "4">>,
    <<"9", "2", "2", "3", "3", "7", "2", "0", "3", "6", "8", "5", "5">>,
    <<"1", "5", "5", "6", "8", "1", "3", "5", "6", "1", "0", "9", "8", "0", "0", "0", "0", "0", "0">>,
    <<"-", "9", "2", "2", "3", "3", "7", "2", "0", "3", "6", "8", "5", "5">>,
    <<"9", "2", "2", "3", "3", "7", "2", "0", "3", "6", "8", "5", "4", "7", "7", "5", "8", "0", "8">> }

\* literals of minutes: 1, the largest whose nanoseconds fit int64, the next
\* one, and 2^53
WideMinutes ==
  { <<"1">>,
    <<"1", "5", "3", "7", "2", "2", "8", "6", "7">>,
    <<"1", "5", "3", "7", "2", "2", "8", "6", "8">>,
    <<"9", "0", "0", "7", "1", "9", "9", "2", "5", "4", "7", "4", "0", "9", "9", "2">> }

\* select mean("value") from "cpu" where time >= T1ms and time <= T2ms
\* group by time(Nm)
WideQueries ==
  [kind : {"wide"}, db : {<<"m", "y", "d", "b">>},
   t1 : WideBounds, t2 : WideBounds, n : WideMinutes]

\* handleV1Query on a query of WideQueries
WideQuery ==
  /\ alive
  /\ resp = NoResponse
  /\ query.kind = "wide"
  /\ resp' = WideAnswer(ParseInt64(query.t1), ParseInt64(query.t2),
                        ParseInt64(query.n))
  /\ UNCHANGED <<store, clock, query>>
  /\ UNCHANGED codecVars
  /\ UNCHANGED concVars
  /\ UNCHANGED udp
  /\ UNCHANGED callerVars

InitWide == \E q \in WideQueries : InitServer(q)

NextWide == WideQuery

\* the handler on bounds and minutes of the whole range of int64
SpecWide == InitWide /\ [][NextWide]_vars

\* the rows saved by the callers of the store: two measurements, rows of
\* equal timestamp, a row saved twice
Mem == <<"m", "e", "m">>

StorePool ==
  { SaveRow(Cpu, Value, 1, EmptyMap, 10 * NsPerSec),
    SaveRow(Cpu, Value, 4, EmptyMap, 10 * NsPerSec),
    SaveRow(Cpu, Value, 1, EmptyMap, 70 * NsPerSec),
    SaveRow(Cpu, Value, 1, EmptyMap, 0 - 30 * NsPerSec),
    SaveRow(Mem, Value, 1, EmptyMap, 10 * NsPerSec) }

\* the ranges read: start and end
RangePool ==
  { <<10 * NsPerSec, 10 * NsPerSec>>, <<0 - 100 * NsPerSec, 100 * NsPerSec>>,
    <<10 * NsPerSec, 70 * NsPerSec>>, <<70 * NsPerSec, 10 * NsPerSec>>,
    <<11 * NsPerSec, 69 * NsPerSec>> }

\* points, err := db.GetMeasurementRange(measurement, start, end)
GetRange(measurement, start, end) ==
  /\ alive
  /\ ~read.called
  /\ \E o \in RangeOutcomes(store, measurement, start, end) :
       read' = [called |-> TRUE, measurement |-> measurement,
                start |-> start, end |-> end, points |-> o.points,
                err |-> o.err]
  /\ UNCHANGED serverVars
  /\ UNCHANGED codecVars
  /\ UNCHANGED concVars
  /\ UNCHANGED udp
  /\ UNCHANGED <<wreq, wresp, before, writes, alive, prev>>

InitStore == InitServer(NoQuery)

StoreSave == \E row \in StorePool : SaveMeasurement(row)

StoreRead ==
  \E measurement \in {Cpu, Mem, <<"d", "i", "s", "k">>}, r \in RangePool :
    GetRange(measurement, r[1], r[2])

NextStore == StoreSave \/ StoreRead

\* rows saved and a range of them read back
SpecStore == InitStore /\ [][NextStore]_vars

----------------------------------------------------------------------------
(* Write requests and UDP packets.                                         *)

\* the most lines of a batch
MaxLines == 3

\* the most write requests sent one after the other
MaxWrites == 2

\* the lines of the batches: a point, a point with two fields, a line
\* Parse rejects, a line on which Parse panics, a line with a value the
\* store refuses and a value it takes, an empty line
PointLine == <<"c", "p", "u", " ", "v", "a", "l", "u", "e", "=", "1", " ", "1", "0">>

TwoFieldLine ==
  <<"m", "e", "m", " ", "v", "a", "l", "u", "e", "=", "2", ",", "o", "=", "3", "i">>

BadLine == <<"b", "a", "d">>

PanicLine == <<"n", "e", "t", ",", "h", "=", "\"", " ", "v", "=", "1">>

InfLine ==
  <<"d", "i", "s", "k", " ", "v", "=", "i", "n", "f", ",", "w", "=", "1">>

WriteLinePool == {PointLine, TwoFieldLine, BadLine, PanicLine, InfLine, <<>>}

\* one batch on each path, and an HTTP request without its parameters
BatchRequests ==
  { WriteRequest(path, Join(ls, <<"\n">>), TRUE) :
      path \in {V2, V1, Udp}, ls \in SeqsUpTo(WriteLinePool, MaxLines) }
  \cup { WriteRequest(path, PointLine, FALSE) : path \in {V2, V1} }

\* the requests sent one after the other
SmallRequests ==
  { WriteRequest(path, body, TRUE) :
      path \in {V2, V1, Udp},
      body \in { PointLine, TwoFieldLine, BadLine, InfLine, PanicLine,
                 Join(<<PointLine, TwoFieldLine>>, <<"\n">>) } }

\* SHOW MEASUREMENTS in three letter cases
ShowQueries ==
  { Other(Show \o <<" ">> \o Measurements),
    Other(ToUpper(Show \o <<" ">> \o Measurements)),
    Other(<<"S">> \o Tail(Show) \o <<" ", "M">> \o Tail(Measurements)) }

\* a client sends a write request or a UDP packet
SendWrite(req) ==
  /\ alive
  /\ resp = NoResponse
  /\ ~wreq.pending
  /\ writes < MaxWrites
  /\ wreq' = req
  /\ writes' = writes + 1
  /\ UNCHANGED <<read, wresp, before, alive, prev>>
  /\ UNCHANGED serverVars
  /\ UNCHANGED codecVars
  /\ UNCHANGED concVars
  /\ UNCHANGED udp

\* the rows of the outcome o are in the store and the request is answered;
\* a panic in the receive goroutine of the UDP server ends the process;
\* requests are handled until the query is answered
Ingested(o) ==
  /\ resp = NoResponse
  /\ store' = store \o o.rows
  /\ wresp' = [status |-> o.status, panic |-> o.panic, handled |-> TRUE]
  /\ alive' = ~(o.panic /\ wreq.path = Udp)
  /\ before' = Len(store)
  /\ wreq' = [wreq EXCEPT !.pending = FALSE]
  /\ UNCHANGED <<clock, query, resp, read, writes, prev>>
  /\ UNCHANGED codecVars
  /\ UNCHANGED concVars

\* handleWrite on the request sent to /api/v2/write
HandleWrite ==
  /\ alive
  /\ wreq.pending
  /\ wreq.path = V2
  /\ \E o \in HttpOutcomes(wreq.body, V2, wreq.hasParams) : Ingested(o)
  /\ UNCHANGED udp

\* handleV1Write on the request sent to /write
HandleV1Write ==
  /\ alive
  /\ wreq.pending
  /\ wreq.path = V1
  /\ \E o \in HttpOutcomes(wreq.body, V1, wreq.hasParams) : Ingested(o)
  /\ UNCHANGED udp

\* one turn of the receive loop of the UDP server: ReadFromUDP returns the
\* packet sent, its lines are handled, and the select at the top of the loop
\* returns when the context is done and goes back to ReadFromUDP otherwise
UdpReceive ==
  /\ alive
  /\ udp.loop = "reading"
  /\ udp.conn = "open"
  /\ wreq.pending
  /\ wreq.path = Udp
  /\ \E o \in BodyOutcomes(wreq.body, Udp) : Ingested(o)
  /\ udp' = [udp EXCEPT !.loop = IF udp.cancelled THEN "exited" ELSE "reading"]

InitBatch ==
  \E req \in BatchRequests :
    /\ CodecIdle
    /\ store = <<>>
    /\ clock = StartClock
    /\ query = NoQuery
    /\ resp = NoResponse
    /\ CallerAt(req)

NextBatch == HandleWrite \/ HandleV1Write \/ UdpReceive

\* one batch handled on one of the three ingest paths
SpecBatch == InitBatch /\ [][NextBatch]_vars

InitWrites == \E q \in ShowQueries : InitServer(q)

Send == \E req \in SmallRequests : SendWrite(req)

NextWrites == Send \/ HandleWrite \/ HandleV1Write \/ UdpReceive \/ HandleV1Query

\* writes one after the other, then SHOW MEASUREMENTS
SpecWrites == InitWrites /\ [][NextWrites]_vars

----------------------------------------------------------------------------
(* The same line given to Parse twice and the same query given to          *)
(* handleV1Query twice, time passing and points being saved in between.    *)

\* the most ticks of the clock
MaxTicks == 2

\* the most points saved between the two calls
MaxBetween == 1

\* the queries asked twice: with and without each time bound, with and
\* without a bucket width
TwiceQueries ==
  [kind    : {"select"},
   db      : {<<"m", "y", "d", "b">>},
   upper   : BOOLEAN,
   agg     : {<<>>, Mean},
   field   : {Value},
   fquoted : {TRUE},
   meas    : {Cpu},
   mquoted : {TRUE},
   where   : {"none", "both", "ge", "le"},
   t1      : {[val |-> 1000, ms |-> TRUE]},
   t2      : {[val |-> 2000, ms |-> TRUE], [val |-> 2000 * NsPerMs, ms |-> FALSE]},
   group   : {"none", "minutes"},
   n       : {1}]

\* time.Now() is later at each call, up to the later call of handleV1Query
Tick ==
  /\ resp = NoResponse
  /\ clock < StartClock + MaxTicks * NsPerSec
  /\ clock' = clock + NsPerSec
  /\ UNCHANGED <<store, query, resp>>
  /\ UNCHANGED codecVars
  /\ UNCHANGED callerVars
  /\ UNCHANGED concVars
  /\ UNCHANGED udp

\* the earlier call of Parse on the line
FirstParse ==
  /\ ~prev.parsed
  /\ pc = "start"
  /\ prev' = [prev EXCEPT !.parsed = TRUE, !.rec = Parse(line)]
  /\ UNCHANGED <<read, wreq, wresp, before, writes, alive>>
  /\ UNCHANGED serverVars
  /\ UNCHANGED codecVars
  /\ UNCHANGED concVars
  /\ UNCHANGED udp

\* the later call of Parse on the line
SecondParse == prev.parsed /\ DoParse

\* the earlier call of handleV1Query on the query
FirstQuery ==
  /\ ~prev.asked
  /\ resp = NoResponse
  /\ \E r \in V1QueryResponses(TextOf(query), query.db, store, clock) :
       prev' = [prev EXCEPT !.asked = TRUE, !.resp = r, !.at = clock]
  /\ UNCHANGED <<read, wreq, wresp, before, writes, alive>>
  /\ UNCHANGED serverVars
  /\ UNCHANGED codecVars
  /\ UNCHANGED concVars
  /\ UNCHANGED udp

\* the later call of handleV1Query on the query
SecondQuery == prev.asked /\ HandleV1Query

\* a point saved between the two calls
SaveBetween ==
  /\ prev.asked
  /\ Len(store) < MaxBetween
  /\ \E row \in { SaveRow(Cpu, Value, 1, EmptyMap, 10 * NsPerSec),
                   SaveRow(Cpu, Value, 4, EmptyMap, 201 * NsPerSec) } :
       SaveMeasurement(row)

InitTwice ==
  \E q \in TwiceQueries :
    /\ line \in {PointLine, TwoFieldLine, BadLine}
    /\ pc = "start"
    /\ lp = NoResult
    /\ text = <<>>
    /\ lp2 = NoResult
    /\ store = <<>>
    /\ clock = StartClock
    /\ query = q
    /\ resp = NoResponse
    /\ CallerAt(NoWrite)

NextTwice ==
  Tick \/ FirstParse \/ SecondParse \/ FirstQuery \/ SecondQuery \/ SaveBetween

\* two calls with the same input at two moments
SpecTwice == InitTwice /\ [][NextTwice]_vars

----------------------------------------------------------------------------
(* The UDP server from New to Stop: Start, the receive goroutine, the      *)
(* context of Start being cancelled, Stop.                                 *)

\* udp.New: not running, no connection, no receive goroutine, Start and
\* Stop not called yet
Created ==
  [isRunning |-> FALSE, conn |-> "nil", loop |-> "none", cancelled |-> FALSE,
   stop |-> "idle", start |-> "idle"]

\* the variables the life cycle of the UDP server leaves alone
udpRest ==
  <<line, pc, lp, text, lp2, store, clock, query, resp, read, wreq, wresp,
    before, writes, alive, mu, procs, prev>>

\* Server.Start: "server is already running" when isRunning is set;
\* otherwise isRunning is set under s.mu and, when the address resolves and
\* the socket is bound (listens), the receive goroutine starts at its
\* select; when they do not, Start returns the error. start is what the
\* last call returned
UdpStart(listens) ==
  /\ alive
  /\ udp.stop # "waiting"
  /\ udp' = IF udp.isRunning THEN [udp EXCEPT !.start = "already running"]
            ELSE IF listens
            THEN [udp EXCEPT !.isRunning = TRUE, !.conn = "open",
                             !.loop = "select", !.start = "started"]
            ELSE [udp EXCEPT !.isRunning = TRUE, !.start = "failed"]
  /\ UNCHANGED udpRest

\* the select at the top of the receive loop: return when ctx.Done() is
\* closed, otherwise the default case calls conn.ReadFromUDP
UdpSelect ==
  /\ alive
  /\ udp.loop = "select"
  /\ udp' = [udp EXCEPT !.loop = IF udp.cancelled THEN "exited" ELSE "reading"]
  /\ UNCHANGED udpRest

\* conn.ReadFromUDP returns an error once the connection is closed, and the
\* loop continues at its select
UdpReadError ==
  /\ alive
  /\ udp.loop = "reading"
  /\ udp.conn = "closed"
  /\ udp' = [udp EXCEPT !.loop = "select"]
  /\ UNCHANGED udpRest

\* the caller of Start cancels the context
UdpCancel ==
  /\ alive
  /\ udp.loop # "none"
  /\ ~udp.cancelled
  /\ udp' = [udp EXCEPT !.cancelled = TRUE]
  /\ UNCHANGED udpRest

\* Server.Stop up to s.wg.Wait(): under s.mu, return nil when not running,
\* otherwise close the connection
UdpStop ==
  /\ alive
  /\ udp.stop # "waiting"
  /\ udp' = IF ~udp.isRunning THEN [udp EXCEPT !.stop = "returned"]
            ELSE [udp EXCEPT !.stop = "waiting",
                             !.conn = IF udp.conn = "open" THEN "closed" ELSE udp.conn]
  /\ UNCHANGED udpRest

\* Server.Stop from s.wg.Wait(): it returns when no receive goroutine is
\* left, then isRunning is cleared
UdpStopped ==
  /\ alive
  /\ udp.stop = "waiting"
  /\ udp.loop \in {"none", "exited"}
  /\ udp' = [udp EXCEPT !.stop = "returned", !.isRunning = FALSE, !.loop = "none"]
  /\ UNCHANGED udpRest

\* a client sends a packet to the bound socket
UdpSend ==
  /\ udp.conn = "open"
  /\ \E body \in {PointLine, BadLine, Join(<<BadLine, PointLine>>, <<"\n">>)} :
       SendWrite(WriteRequest(Udp, body, TRUE))

UdpStarts == \E listens \in BOOLEAN : UdpStart(listens)

InitUdp ==
  /\ CodecIdle
  /\ store = <<>>
  /\ clock = StartClock
  /\ query = NoQuery
  /\ resp = NoResponse
  /\ read = NoRead
  /\ wreq = NoWrite
  /\ wresp = NoWriteResponse
  /\ before = 0
  /\ writes = 0
  /\ alive = TRUE
  /\ mu = Unlocked
  /\ procs = NoProcs
  /\ prev = NoCalls
  /\ udp = Created

NextUdp ==
  UdpStarts \/ UdpSelect \/ UdpReceive \/ UdpReadError \/ UdpCancel \/ UdpStop
    \/ UdpStopped \/ UdpSend

\* the step of UdpReceive seen at the socket: ReadFromUDP returns the packet
\* sent; the handling of its lines that follows never blocks
UdpTakes ==
  /\ alive
  /\ udp.loop = "reading"
  /\ udp.conn = "open"
  /\ wreq.pending
  /\ wreq.path = Udp
  /\ wreq' = [wreq EXCEPT !.pending = FALSE]

\* the goroutines of the server are scheduled: the receive loop takes its
\* next step when it can (a packet that has arrived is read and handled),
\* and a Stop waiting in s.wg.Wait() returns when it can; packets, cancel,
\* Start and Stop come when their callers choose
SpecUdp ==
  /\ InitUdp
  /\ [][NextUdp]_vars
  /\ WF_vars(UdpSelect)
  /\ WF_wreq(UdpTakes)
  /\ WF_vars(UdpReadError)
  /\ WF_vars(UdpStopped)

----------------------------------------------------------------------------
(* String on records built with New and the exported maps, not by Parse:   *)
(* tagOrder and fieldOrder are empty.                                      *)

\* the maps a caller assigns to Tags and to Fields: none, one or two keys
BuiltMaps(keys, values) ==
  UNION { [ks -> values] : ks \in SUBSET keys }

\* proto := New(m); proto.Tags = tags; proto.Fields = fields;
\* proto.Timestamp = ts
Built(m, tags, fields, ts) ==
  [New(m) EXCEPT !.TagsNil = FALSE, !.Tags = tags,
                 !.FieldsNil = FALSE, !.Fields = fields, !.Timestamp = ts]

\* the earlier call of proto.String()
FirstString ==
  /\ ~prev.parsed
  /\ pc = "parsed"
  /\ \E iter \in FieldIterOrders(lp.lp) :
       prev' = [prev EXCEPT !.parsed = TRUE, !.rec = String(lp.lp, iter)]
  /\ UNCHANGED <<read, wreq, wresp, before, writes, alive>>
  /\ UNCHANGED serverVars
  /\ UNCHANGED codecVars
  /\ UNCHANGED concVars
  /\ UNCHANGED udp

\* the later call of proto.String()
SecondString == prev.parsed /\ DoString

InitBuilt ==
  /\ line = <<>>
  /\ pc = "parsed"
  /\ \E m \in {<<"m">>, <<"a", " ", "b">>},
        tags \in BuiltMaps({<<"k">>, <<"j">>}, {<<"v">>, <<"a", " ", "b">>}),
        fields \in BuiltMaps({<<"f">>, <<"g">>}, {<<"1">>, <<"\"", "s", "\"">>}),
        ts \in {0, 5} :
       lp = Ok(Built(m, tags, fields, ts))
  /\ text = <<>>
  /\ lp2 = NoResult
  /\ store = <<>>
  /\ clock = StartClock
  /\ query = NoQuery
  /\ resp = NoResponse
  /\ CallerAt(NoWrite)

NextBuilt == FirstString \/ SecondString

\* String called twice on a record built without Parse
SpecBuilt == InitBuilt /\ [][NextBuilt]_vars

----------------------------------------------------------------------------
(* Concurrent clients: each HTTP request is served by its own goroutine,   *)
(* and the goroutines meet at the RWMutex of the Manager.                  *)

\* the number of clients that write at the same time
MaxWriters == 2

Writers == 1..MaxWriters

\* the goroutine of a request that reads a range while the writers write
Reader == MaxWriters + 1

\* a goroutine serving the write request with the text body, and the
\* goroutine serving a read
WriterAt(body) ==
  [pc |-> "start", body |-> body, todo |-> <<>>, answer |-> 0, status |-> 0,
   got |-> <<>>]

ReaderAt == [WriterAt(<<>>) EXCEPT !.pc = "read"]

\* m.mu.Lock() returns when no goroutine holds the lock for writing or for
\* reading
CanLock_Mut(m) == m.writer = 0

CanLock(m) == m.writer = 0 /\ m.readers = {}

\* m.mu.RLock() returns when no goroutine holds the lock for writing
CanRLock(m) == m.writer = 0

\* handleWrite up to its first call of SaveMeasurement: the lines are
\* parsed and the fields converted on the goroutine's own data, todo are
\* the rows it saves and answer the status it sends after the last of them
Begin(p) ==
  /\ procs[p].pc = "start"
  /\ \E o \in HttpOutcomes(procs[p].body, V2, TRUE) :
       procs' = [procs EXCEPT ![p].todo = o.rows, ![p].answer = o.status,
                              ![p].pc = IF o.rows = <<>> THEN "done" ELSE "save",
                              ![p].status = IF o.rows = <<>> THEN o.status ELSE 0]
  /\ UNCHANGED <<mu, store>>

\* SaveMeasurement: m.mu.Lock()
Lock(p) ==
  /\ procs[p].pc = "save"
  /\ CanLock(mu)
  /\ mu' = [mu EXCEPT !.writer = p]
  /\ procs' = [procs EXCEPT ![p].pc = "locked"]
  /\ UNCHANGED store

\* SaveMeasurement: m.db.Exec(INSERT INTO points ...)
Exec(p) ==
  /\ procs[p].pc = "locked"
  /\ store' = Append(store, Head(procs[p].todo))
  /\ procs' = [procs EXCEPT ![p].pc = "inserted"]
  /\ UNCHANGED mu

\* SaveMeasurement: the deferred m.mu.Unlock(); handleWrite goes on with
\* its next field and answers after the last
Unlock(p) ==
  /\ procs[p].pc = "inserted"
  /\ mu' = [mu EXCEPT !.writer = 0]
  /\ procs' = [procs EXCEPT
                ![p].todo = Tail(procs[p].todo),
                ![p].pc = IF Tail(procs[p].todo) = <<>> THEN "done" ELSE "save",
                ![p].status = IF Tail(procs[p].todo) = <<>> THEN procs[p].answer ELSE 0]
  /\ UNCHANGED store

\* GetMeasurementRange: m.mu.RLock()
RLock(p) ==
  /\ procs[p].pc = "read"
  /\ CanRLock(mu)
  /\ mu' = [mu EXCEPT !.readers = @ \cup {p}]
  /\ procs' = [procs EXCEPT ![p].pc = "rlocked"]
  /\ UNCHANGED store

\* GetMeasurementRange: m.db.Query and the loop over its rows
Query(p) ==
  /\ procs[p].pc = "rlocked"
  /\ procs' = [procs EXCEPT
                ![p].got = GetMeasurementRange(store, Cpu, 0, 100 * NsPerSec),
                ![p].pc = "queried"]
  /\ UNCHANGED <<mu, store>>

\* GetMeasurementRange: the deferred m.mu.RUnlock()
RUnlock(p) ==
  /\ procs[p].pc = "queried"
  /\ mu' = [mu EXCEPT !.readers = @ \ {p}]
  /\ procs' = [procs EXCEPT ![p].pc = "done", ![p].status = 200]
  /\ UNCHANGED store

\* the variables the goroutines of concurrent requests leave alone
restVars ==
  <<line, pc, lp, text, lp2, clock, query, resp, read, wreq, wresp, before,
    writes, alive, udp, prev>>

InitConc ==
  /\ CodecIdle
  /\ store = <<>>
  /\ clock = StartClock
  /\ query = NoQuery
  /\ resp = NoResponse
  /\ read = NoRead
  /\ wreq = NoWrite
  /\ wresp = NoWriteResponse
  /\ before = 0
  /\ writes = 0
  /\ alive = TRUE
  /\ mu = Unlocked
  /\ udp = Receiving
  /\ prev = NoCalls
  /\ \E bodies \in [Writers -> {PointLine, TwoFieldLine}] :
       procs = [p \in 1..Reader |->
                  IF p = Reader THEN ReaderAt ELSE WriterAt(bodies[p])]

Begins == \E p \in Writers : Begin(p) /\ UNCHANGED restVars

Locks == \E p \in Writers : Lock(p) /\ UNCHANGED restVars

Execs == \E p \in Writers : Exec(p) /\ UNCHANGED restVars

Unlocks == \E p \in Writers : Unlock(p) /\ UNCHANGED restVars

RLocks == RLock(Reader) /\ UNCHANGED restVars

Queries == Query(Reader) /\ UNCHANGED restVars

RUnlocks == RUnlock(Reader) /\ UNCHANGED restVars

NextConc == Begins \/ Locks \/ Execs \/ Unlocks \/ RLocks \/ Queries \/ RUnlocks

\* clients that write at the same time and one that reads
SpecConc == InitConc /\ [][NextConc]_vars

----------------------------------------------------------------------------
\* the request is a SELECT agg("f") FROM "m" WHERE time >= T1 and
\* time <= T2 GROUP BY time(Nm) and has been answered
FullForm ==
  /\ resp # NoResponse
  /\ query.kind = "select"
  /\ query.db # <<>>
  /\ query.agg # <<>>
  /\ query.fquoted
  /\ query.mquoted
  /\ query.where = "both"
  /\ query.group = "minutes"

(* C6 Interpretation: a SELECT agg("f") FROM "m" WHERE time >= T1[ms] and  *)
(* time <= T2[ms] GROUP BY time(Nm), in any keyword case, yields           *)
(* aggregation agg, field f, measurement m, startNs and endNs the bounds   *)
(* in nanoseconds (times 1,000,000 with the ms suffix) and the bucket      *)
(* width N * 60 * 10^9 ns.                                                 *)
C6_Interpretation ==
  FullForm =>
    /\ resp.status = 200
    /\ resp.desc.aggregation = query.agg
    /\ resp.desc.field = query.field
    /\ resp.desc.measurement = query.meas
    /\ resp.desc.startTime = Nanoseconds(query.t1)
    /\ resp.desc.endTime = Nanoseconds(query.t2)
    /\ resp.desc.groupByInterval = query.n * 60 * NsPerSec

(* C7 Identifier case: the measurement name and the field name of the      *)
(* descriptor of a SELECT keep the letter case they have in the query.     *)
C7_IdentifiersKeepCase ==
  query.kind = "select" /\ resp.status = 200 =>
    /\ resp.desc.measurement = query.meas
    /\ resp.desc.field = query.field

\* the request is a query with the aggregation agg and has the answer 200
Answered(agg) ==
  /\ query.kind = "select"
  /\ query.agg = agg
  /\ resp.status = 200

\* the ids of the rows the answered query selects: its measurement, its
\* time range, and the field present
Selected ==
  { i \in 1..Len(store) :
      /\ store[i].measurement = resp.desc.measurement
      /\ store[i].timestamp >= resp.desc.startTime
      /\ store[i].timestamp <= resp.desc.endTime
      /\ resp.desc.field \in DOMAIN store[i].fields }

\* the width of the buckets of the answered query
Width == query.n * 60 * NsPerSec

\* the bucket the handler assigns row i to
BucketOf(i) == BucketTime(store[i].timestamp, Width)

(* C8 Floor alignment: the bucket b a point of timestamp ts is assigned to *)
(* by a mean query of bucket width w > 0 is a multiple of w with           *)
(* b <= ts < b + w, for negative timestamps too.                           *)
C8_FloorAlignedBuckets ==
  Answered(Mean) =>
    \A i \in Selected :
      /\ BucketOf(i) % Width = 0
      /\ BucketOf(i) <= store[i].timestamp
      /\ store[i].timestamp < BucketOf(i) + Width
      /\ \E k \in 1..Len(resp.values) :
           resp.values[k].time = GoDiv(BucketOf(i), NsPerMs)

\* the sum of the selected field over the rows of ids S
RECURSIVE SumOver(_)
SumOver(S) ==
  IF S = {} THEN 0
  ELSE LET i == CHOOSE i \in S : TRUE
       IN store[i].fields[resp.desc.field] + SumOver(S \ {i})

Reduce(agg, S) ==
  LET vals == { store[i].fields[resp.desc.field] : i \in S }
  IN IF agg = <<"s", "u", "m">> THEN SumOver(S)
     ELSE IF agg = <<"c", "o", "u", "n", "t">> THEN Cardinality(S)
     ELSE IF agg = <<"m", "i", "n">> THEN CHOOSE v \in vals : \A u \in vals : v <= u
     ELSE CHOOSE v \in vals : \A u \in vals : v >= u

(* C10 Other aggregations: a SELECT with sum(f), count(f), min(f) or       *)
(* max(f) returns one row per time bucket, with the sum, the number, the   *)
(* minimum or the maximum of the field's values, not the raw points.       *)
C10_OtherAggregations ==
  \A a \in 2..Len(AggFuncs) :
    Answered(AggFuncs[a]) =>
      LET buckets == { BucketOf(i) : i \in Selected }
      IN /\ Len(resp.values) = Cardinality(buckets)
         /\ \A b \in buckets :
              \E k \in 1..Len(resp.values) :
                /\ resp.values[k].time = GoDiv(b, NsPerMs)
                /\ resp.values[k].value =
                     Plain(Reduce(AggFuncs[a], { i \in Selected : BucketOf(i) = b }))

(* C11 Plain rows: every row of a SELECT of a named field without an       *)
(* aggregation is (time, value) of a stored point of the range, time the   *)
(* point's timestamp in nanoseconds, for bounds written with the ms suffix *)
(* and for bounds written as nanoseconds.                                  *)
C11_PlainRowsInNanoseconds ==
  Answered(<<>>) =>
    \A k \in 1..Len(resp.values) :
      \E i \in Selected :
        /\ resp.values[k].time = store[i].timestamp
        /\ resp.values[k].value = Plain(store[i].fields[resp.desc.field])

\* the points of the range read equal to p, and the rows saved that make p
CountRead(p) == Cardinality({ k \in 1..Len(read.points) : read.points[k] = p })

Matching(p) ==
  { i \in 1..Len(store) :
      /\ store[i].measurement = read.measurement
      /\ store[i].timestamp >= read.start
      /\ store[i].timestamp <= read.end
      /\ PointOf(read.measurement, store[i]) = p }

(* C12 Range read: GetMeasurementRange(m, s, e) returns exactly one point  *)
(* per earlier save of measurement m with s <= timestamp <= e, saves of    *)
(* equal timestamp all kept, in non-decreasing timestamp order, and no     *)
(* point of another measurement.                                           *)
C12_RangeRead ==
  read.called =>
    /\ \A i \in 1..Len(store) :
         LET p == PointOf(store[i].measurement, store[i])
         IN CountRead(p) = Cardinality(Matching(p))
    /\ \A k \in 1..Len(read.points) :
         /\ read.points[k].Measurement = read.measurement
         /\ Matching(read.points[k]) # {}
    /\ \A k \in 1..(Len(read.points) - 1) :
         read.points[k].Timestamp <= read.points[k + 1].Timestamp

\* a row saved twice and a row of the same timestamp read back with both
\* bounds on that timestamp, a row of another measurement left out
C12_Witness ==
  /\ read.called
  /\ read.start = read.end
  /\ Len(read.points) = 3
  /\ read.points[1] = read.points[2]
  /\ read.points[3] # read.points[1]
  /\ \E i \in 1..Len(store) : store[i].measurement # read.measurement

\* the names SHOW MEASUREMENTS answered
Listed == { resp.values[k] : k \in 1..Len(resp.values) }

\* the non-empty lines of the request handled last
BatchLines ==
  SelectSeq([k \in 1..Len(Split(TrimSpace(wreq.body), <<"\n">>)) |->
               TrimSpace(Split(TrimSpace(wreq.body), <<"\n">>)[k])],
            LAMBDA l : l # <<>>)

(* C13 Show measurements: after any sequence of writes SHOW MEASUREMENTS,  *)
(* in any letter case, returns every measurement that has a stored point   *)
(* exactly once and no other name, and the measurement of every line of a  *)
(* write that was accepted is listed.                                      *)
C13_ShowMeasurements ==
  ToLower(query.field) = Show \o <<" ">> \o Measurements /\ resp # NoResponse =>
    /\ resp.status = 200
    /\ resp.name = Measurements
    /\ Listed = { store[i].measurement : i \in 1..Len(store) }
    /\ Len(resp.values) = Cardinality(Listed)
    /\ wresp.status = 204 /\ ~wreq.pending =>
         \A k \in 1..Len(BatchLines) : Parse(BatchLines[k]).lp.Measurement \in Listed

\* two requests written, three rows of two measurements stored, the query
\* in upper case
C13_Witness ==
  /\ resp.status = 200
  /\ query.field # ToLower(query.field)
  /\ writes = 2
  /\ wresp.status = 204
  /\ ~wreq.pending
  /\ Len(store) >= 3
  /\ Cardinality(Listed) = 2

\* the row that the writer p saves for the field f of its line
RowOf(p, f) ==
  SaveRow(Parse(procs[p].body).lp.Measurement, f,
          FloatValue(Parse(procs[p].body).lp.Fields[f]).val,
          Parse(procs[p].body).lp.Tags, Parse(procs[p].body).lp.Timestamp)

\* the fields written: a writer and a field of its line
Written == { pf \in Writers \X {Value, <<"o">>} : pf[2] \in DOMAIN Parse(procs[pf[1]].body).lp.Fields }

\* the goroutines inside SaveMeasurement and inside GetMeasurementRange
Writing == { p \in DOMAIN procs : procs[p].pc \in {"locked", "inserted"} }

Reading == { p \in DOMAIN procs : procs[p].pc \in {"rlocked", "queried"} }

(* C14 ConcurrentWrites: at most one goroutine is inside SaveMeasurement,  *)
(* none is while a goroutine is inside GetMeasurementRange, and once all   *)
(* writers have finished every write was answered 204 and the store holds  *)
(* exactly one point for each written field.                               *)
C14_ConcurrentWrites ==
  /\ Cardinality(Writing) <= 1
  /\ Writing # {} => Reading = {}
  /\ (procs # NoProcs /\ \A p \in Writers : procs[p].pc = "done") =>
       /\ \A p \in Writers : procs[p].status = 204
       /\ Len(store) = Cardinality(Written)
       /\ \A pf \in Written :
            Cardinality({ i \in 1..Len(store) : store[i] = RowOf(pf[1], pf[2]) })
              = Cardinality({ qg \in Written : RowOf(qg[1], qg[2]) = RowOf(pf[1], pf[2]) })

\* two writers and the reader have finished, a writer having waited for
\* the lock: more than a point is in the store
C14_Witness ==
  /\ procs # NoProcs
  /\ \A p \in DOMAIN procs : procs[p].pc = "done"
  /\ procs[Reader].got # <<>>
  /\ Len(store) > MaxWriters


\* the lines of the batch on which Parse returns an error
Failing == { k \in 1..Len(BatchLines) : Parse(BatchLines[k]).status = "err" }

\* the rows the store gained from the batch
Gained == SubSeq(store, before + 1, Len(store))

\* the rows that the lines before line k of the batch can give: one for
\* each of their fields
RECURSIVE FieldsBefore(_)
FieldsBefore(k) ==
  IF k <= 1 THEN 0
  ELSE FieldsBefore(k - 1)
       + (IF Parse(BatchLines[k - 1]).status = "ok"
          THEN Cardinality(DOMAIN Parse(BatchLines[k - 1]).lp.Fields) ELSE 0)

\* the least element of a non-empty set of numbers
Least(S) == CHOOSE k \in S : \A j \in S : k <= j

(* C15 AbortOnParseError: when a line of a handled batch fails to parse,   *)
(* the store gains no row from the lines after it, on the v2 write path,   *)
(* the v1 write path and the UDP path: it gains at most one row for each   *)
(* field of the lines before the failing line.                             *)
C15_AbortOnParseError ==
  wresp.handled /\ Failing # {} =>
    Len(Gained) <= FieldsBefore(Least(Failing))


\* the line k of the batch is valid: Parse accepts it and each of its
\* fields converts to a number the store takes
ValidLine(k) ==
  /\ Parse(BatchLines[k]).status = "ok"
  /\ \A f \in DOMAIN Parse(BatchLines[k]).lp.Fields :
       /\ FloatValue(Parse(BatchLines[k]).lp.Fields[f]).ok
       /\ FloatValue(Parse(BatchLines[k]).lp.Fields[f]).finite

\* the row that the field f of the line k of the batch gives
LineRow(k, f) ==
  SaveRow(Parse(BatchLines[k]).lp.Measurement, f,
          FloatValue(Parse(BatchLines[k]).lp.Fields[f]).val,
          Parse(BatchLines[k]).lp.Tags, Parse(BatchLines[k]).lp.Timestamp)

(* C16 SurvivesInvalidData: the UDP server keeps running whatever packets  *)
(* it received, unparsable lines included, and every valid line of a       *)
(* packet it has handled is stored.                                        *)
C16_SurvivesInvalidData ==
  /\ alive
  /\ (wreq.path = Udp /\ wresp.handled /\ ~wreq.pending) =>
       \A k \in 1..Len(BatchLines) :
         ValidLine(k) =>
           \A f \in DOMAIN Parse(BatchLines[k]).lp.Fields :
             \E i \in 1..Len(Gained) : Gained[i] = LineRow(k, f)


\* both calls of Parse and both calls of handleV1Query have returned
CalledTwice ==
  /\ prev.parsed
  /\ pc = "parsed"
  /\ prev.asked
  /\ resp # NoResponse

HasUpperBound == query.where \in {"both", "le"}

LoopRunning == udp.loop \in {"select", "reading"}

(* C18 CancelStopsLoop: once the context of a successful Start is          *)
(* cancelled, the receive loop eventually exits, whether or not a further  *)
(* packet arrives.                                                         *)
C18_CancelStopsLoop ==
  (alive /\ udp.cancelled /\ LoopRunning) ~> (udp.loop \in {"exited", "none"} \/ ~alive)


\* the line has no space at all
NoSpace(l) == ~Contains(l, <<" ">>)

\* the line is the measurement m, the separating space and no field: it
\* ends there or goes on with a space
ZeroFields(l) ==
  /\ Len(SplitN2(l, <<" ">>)) = 2
  /\ SplitN2(l, <<" ">>)[1] = <<"m">>
  /\ SplitN2(SplitN2(l, <<" ">>)[2], <<" ">>)[1] = <<>>

(* C19 NoFieldsSegment: Parse rejects a line without any space (the empty  *)
(* line and a bare measurement among them) with "invalid line protocol     *)
(* format", and a line with the separating space but zero fields with      *)
(* "missing fields".                                                       *)
C19_NoFieldsSegment ==
  pc # "start" =>
    /\ NoSpace(line) =>
         lp.status = "err" /\ lp.err = "invalid line protocol format"
    /\ ZeroFields(line) =>
         lp.status = "err" /\ lp.err = "missing fields"


\* the quoting of the literal v is malformed: a lone double quote, or a
\* double quote at one end only
MalformedQuoting(v) ==
  \/ v = <<"\"">>
  \/ HasPrefix(v, <<"\"">>) /\ ~HasSuffix(v, <<"\"">>)
  \/ HasSuffix(v, <<"\"">>) /\ ~HasPrefix(v, <<"\"">>)

\* the line is m, one field f with a literal of malformed quoting, and
\* possibly a timestamp
MalformedQuotingLine(l) ==
  /\ Len(LineParts(l)) = 2
  /\ LineParts(l)[1] = <<"m">>
  /\ Len(RawFieldPairs(l)) = 1
  /\ Len(SplitN2(RawFieldPairs(l)[1], <<"=">>)) = 2
  /\ RawKey(RawFieldPairs(l)[1]) = <<"f">>
  /\ MalformedQuoting(TrimSpace(RawValue(RawFieldPairs(l)[1])))

(* C20 MalformedQuoting: a field value that is a lone double quote, or     *)
(* starts with a double quote without ending with one, or ends with one    *)
(* without starting with one, is rejected with "invalid string field       *)
(* value": the integer, boolean and float checks never classify it.        *)
C20_MalformedQuoting ==
  pc # "start" /\ MalformedQuotingLine(line) =>
    lp.status = "err" /\ lp.err = "invalid string field value"


\* the text of r with its tags and its fields in sorted key order
SortedText(r) ==
  WriteMeasurement(r.Measurement)
  \o WriteTags(r.Tags, SortStrings(DOMAIN r.Tags))
  \o <<" ">>
  \o WriteFields(r.Fields, SortStrings(DOMAIN r.Fields), TRUE)
  \o (IF r.Timestamp > 0 THEN <<" ">> \o FormatInt(r.Timestamp) ELSE <<>>)

(* C21 SortedFallback: String on a record without order metadata writes    *)
(* the tags and the fields in sorted key order, so two calls on the same   *)
(* record give the same text.                                              *)
C21_SortedFallback ==
  /\ (prev.parsed /\ lp.lp.tagOrder = <<>> /\ lp.lp.fieldOrder = <<>>) =>
       prev.rec = SortedText(lp.lp)
  /\ (pc = "printed" /\ lp.lp.tagOrder = <<>> /\ lp.lp.fieldOrder = <<>>) =>
       text = SortedText(lp.lp)
  /\ (prev.parsed /\ pc = "printed" /\ lp.lp.tagOrder = <<>> /\ lp.lp.fieldOrder = <<>>) =>
       prev.rec = text


(* C22 IndependentBounds: an answered SELECT with only time >= T1 has      *)
(* startNs = T1 in nanoseconds and endNs = now; with only time <= T2 it    *)
(* has startNs = 0 and endNs = T2 in nanoseconds; with neither it has      *)
(* startNs = 0 and endNs = now.                                            *)
C22_IndependentBounds ==
  query.kind = "select" /\ resp.status = 200 =>
    /\ query.where = "ge" =>
         /\ resp.desc.startTime = Nanoseconds(query.t1)
         /\ resp.desc.endTime = clock
    /\ query.where = "le" =>
         /\ resp.desc.startTime = 0
         /\ resp.desc.endTime = Nanoseconds(query.t2)
    /\ query.where = "none" =>
         /\ resp.desc.startTime = 0
         /\ resp.desc.endTime = clock


(* C23 InvalidTimeFormat: a SELECT with a >= or a <= bound after time      *)
(* whose literal is not a base-10 integer, with or without the ms suffix,  *)
(* is answered 400 with an invalid time format error and the store is not  *)
(* read.                                                                   *)
C23_InvalidTimeFormat ==
  query \in BadTimeQueries /\ resp # NoResponse =>
    /\ resp.status = 400
    /\ resp.error \in {"invalid start time format", "invalid end time format"}
    /\ resp.desc = NoDesc


(* C24 DefaultBucketWidth: a mean query whose group by is not the exact     *)
(* time(Nm) pattern (time(Ns), the tag host, or time followed by a space   *)
(* before the parenthesis) is answered 200 with the bucket width of 5      *)
(* minutes.                                                                *)
C24_DefaultBucketWidth ==
  /\ query.kind = "select" /\ query.agg = Mean /\ query.db # <<>>
  /\ query.group \in {"seconds", "tag", "spaced"}
  /\ resp # NoResponse
  => /\ resp.status = 200
     /\ resp.desc.groupByInterval = 5 * 60 * NsPerSec


\* the HTTP write request was answered with an error status
HttpError ==
  /\ wresp.handled
  /\ wreq.path \in {V2, V1}
  /\ wresp.status \in {400, 500}

(* C25 ErrorLeavesStoreUnchanged: an HTTP write request answered with an   *)
(* error status, 400 or 500, leaves the store unchanged: no point of the   *)
(* request is stored, the points of the lines before the failing line      *)
(* included.                                                               *)
C25_ErrorLeavesStoreUnchanged == HttpError => Gained = <<>>

\* the fields of the line k of the batch, none when Parse refuses the line
LineFields(k) ==
  IF Parse(BatchLines[k]).status = "ok"
  THEN DOMAIN Parse(BatchLines[k]).lp.Fields ELSE {}

\* the rows gained are those of the lines before the line k, each field of
\* them, and of some but not all of the fields of the line k
StoppedAt(k) ==
  /\ ~ValidLine(k)
  /\ \A j \in 1..(k - 1) :
       /\ ValidLine(j)
       /\ \A f \in LineFields(j) : \E i \in 1..Len(Gained) : Gained[i] = LineRow(j, f)
  /\ \A i \in 1..Len(Gained) :
       \E j \in 1..k : \E f \in LineFields(j) : Gained[i] = LineRow(j, f)
  /\ Len(Gained) >= FieldsBefore(k)
  /\ Len(Gained) <= FieldsBefore(k) + Cardinality(LineFields(k))
  /\ Len(Gained) = FieldsBefore(k) \/ Len(Gained) < FieldsBefore(k) + Cardinality(LineFields(k))

(* C25 amended: an HTTP write request answered with an error status stores *)
(* no point of the lines after the failing line and keeps what was saved   *)
(* before the failure: every point of the lines before the failing line,   *)
(* and of the failing line the fields saved before the failing field. A    *)
(* request without its parameters stores nothing.                          *)
C25_ErrorKeepsEarlierLines ==
  HttpError =>
    IF wreq.hasParams
    THEN \E k \in 1..Len(BatchLines) : StoppedAt(k)
    ELSE Gained = <<>>

\* a request answered 400 after the points of an earlier line were stored
C25_Witness == HttpError /\ wresp.status = 400 /\ Len(Gained) > 0


(* C26 FailedStartNotRunning: a Start of the UDP server that fails leaves  *)
(* the server not running, a Start is answered "server is already running" *)
(* only when a receive loop was started, and outside a call of Stop the    *)
(* running flag is set only while a receive loop exists or has existed.    *)
C26_FailedStartNotRunning ==
  /\ udp.start = "failed" /\ udp.stop # "waiting" => ~udp.isRunning
  /\ udp.start = "already running" => udp.loop # "none"
  /\ udp.isRunning /\ udp.stop # "waiting" => udp.loop # "none"


(* C27 StopReturns: after a successful Start, a call of Stop that has      *)
(* closed the connection eventually returns, with the connection closed    *)
(* and the server not running, whether or not the context was cancelled.   *)
C27_StopReturns ==
  (alive /\ udp.start = "started" /\ udp.stop = "waiting")
    ~> (~alive \/ (udp.stop = "returned" /\ udp.conn # "open" /\ ~udp.isRunning))


(* C28 PositiveBucketWidth: the bucket width of an answered mean query is  *)
(* strictly positive for every integer N of group by time(Nm), zero and    *)
(* negative included, and the bucket computation never divides by zero:    *)
(* no mean query is answered with a server error.                          *)
C28_PositiveBucketWidth ==
  query.kind = "select" /\ query.agg = Mean /\ resp # NoResponse =>
    /\ resp.status # 500
    /\ resp.status = 200 => resp.desc.groupByInterval > 0


\* the integer that an int64 stands for: its sign and its magnitude on
\* fourteen limbs
ExactOf(w) ==
  [neg |-> w[8] >= Limb \div 2,
   mag |-> (IF w[8] >= Limb \div 2 THEN Neg64(w) ELSE w) \o <<0, 0, 0, 0, 0, 0>>]

\* the integer e times k, without any wrap
ExactTimes(e, k) == [neg |-> e.neg, mag |-> MulAddLimbs(e.mag, k, 0)]

\* a <= b on magnitudes of equal length
RECURSIVE MagLeq(_, _)
MagLeq(a, b) ==
  IF a = <<>> THEN TRUE
  ELSE IF a[Len(a)] # b[Len(b)] THEN a[Len(a)] < b[Len(b)]
  ELSE MagLeq(SubSeq(a, 1, Len(a) - 1), SubSeq(b, 1, Len(b) - 1))

\* x <= y on integers
LeqExact(x, y) ==
  IF x.neg # y.neg THEN x.neg
  ELSE IF x.neg THEN MagLeq(y.mag, x.mag) ELSE MagLeq(x.mag, y.mag)

\* the literal, as an integer
LiteralOf(s) == ExactOf(ParseInt64(s).val)

(* C29 NoWrapAround: for ms bounds whose literals parse as int64 the       *)
(* normalised bounds are the literals times 1,000,000 as integers, the     *)
(* bucket width is N * 60 * 10^9 as an integer, and T1 <= T2 implies       *)
(* startNs <= endNs.                                                       *)
C29_NoWrapAround ==
  query.kind = "wide" /\ resp.status = 200 =>
    /\ ExactOf(resp.desc.startTime) = ExactTimes(LiteralOf(query.t1), 1000000)
    /\ ExactOf(resp.desc.endTime) = ExactTimes(LiteralOf(query.t2), 1000000)
    /\ ParseInt64(query.n).ok =>
         ExactOf(resp.desc.groupByInterval)
           = ExactTimes(ExactTimes(ExactTimes(LiteralOf(query.n), 60), 1000), 1000000)
    /\ LeqExact(LiteralOf(query.t1), LiteralOf(query.t2)) =>
         LeqExact(ExactOf(resp.desc.startTime), ExactOf(resp.desc.endTime))


(* C30 UnknownMeasurement: GetMeasurementRange for a measurement that has  *)
(* no stored point returns an empty sequence and no error.                 *)
C30_UnknownMeasurement ==
  /\ read.called
  /\ \A i \in 1..Len(store) : store[i].measurement # read.measurement
  => read.err = "" /\ read.points = <<>>


====
